---- MODULE Spec2Model ----
(***************************************************************************)
(* A model of the ShutIt session engine and build orchestrator            *)
(* (shutit_class.py, shutit.py, shutit_shared.py).                         *)
(*                                                                         *)
(* The module holds several specifications over one set of variables;     *)
(* each specification drives one component and leaves the variables of    *)
(* the other components unchanged:                                         *)
(*   SpecEAI     ShutIt.expect_allow_interrupt (the timeout escalator)     *)
(*   SpecSession ShutIt.login / logout / set_default_..._expect            *)
(*   SpecSend    ShutIt.send (check-exit and retry)                        *)
(*   SpecMulti   ShutIt.multisend (the dialog driver)                      *)
(*   SpecPhases  the orchestrator's phases (shutit.py)                     *)
(*   SpecFail, SpecRegistry, SpecReady, ...  single functions              *)
(***************************************************************************)
EXTENDS Integers, Sequences, FiniteSets, TLC

(***************************************************************************)
(* Bounds of the model.                                                    *)
(***************************************************************************)
MaxTimeout == 4
MaxIteration == 5
MaxPatterns == 2
MaxDepth == 4
MaxRetry == 3
MaxDialog == 3
NModules == 2
MaxFails == 3
MaxEnvs == 3

(***************************************************************************)
(* Program constants: the bytes expect_allow_interrupt sends to the child. *)
(***************************************************************************)
ETX == 3
SUB == 26

(***************************************************************************)
(* Program constant: the default of send()'s retry parameter.              *)
(***************************************************************************)
DefaultRetry == 3

VARIABLES
    \* ---- expect_allow_interrupt ----
    pc,               \* position of the call: idle, loop, after_loop, probe1, probe2, pause, done
    arg_timeout,      \* the timeout argument as passed by the caller
    arg_iteration_s,  \* the iteration_s argument as passed by the caller
    nexpect,          \* len(expect)
    timeout,          \* local timeout (after line 556-557)
    iteration_s,      \* local iteration_s (after lines 558-561)
    accum_timeout,    \* local accum_timeout
    timed_out,        \* local timed_out
    res,              \* local res: the result of the last wait
    ctrlc_stop,       \* shutit.build['ctrlc_stop']
    interactive,      \* what shutit_util.determine_interactive(self) answers
    child_sent,       \* the bytes sent to the child by this call, in order
    pause_points,     \* how many times the session's pause_point was raised
    polls,            \* how many quantum polls (line 564) were made
    probes,           \* how many re-probes (lines 579, 582) were made
    matches,          \* how many waits returned the index of a pattern
    outcome           \* how the call ended

VARIABLES
    \* ---- the current session (ShutItPexpectSession) ----
    login_stack,      \* the session's stack of login contexts, root first
    default_expect,   \* the session's default_expect
    sess_outcome,     \* "running", or how the session's run ended
    sess_last,        \* the last session operation and what it answered
    saved,            \* per open login: the default and the top prompt before it
    popped,           \* the saved entry of the login the last logout closed
    run_logins,       \* successful logins in a row, up to the last logout run
    run_logouts       \* logouts in a row since the last login

VARIABLES
    \* ---- send ----
    snd_pc,           \* idle, waiting, done
    sendspec,         \* the ShutItSendSpec built by ShutIt.send
    snd_args,         \* the arguments the caller passed to ShutIt.send
    transmitted,      \* the command texts written to the child, in order
    statuses,         \* the exit statuses the command reported, in order
    snd_outcome       \* how the send ended

VARIABLES
    \* ---- multisend ----
    ms_pc,            \* idle, waiting, done
    ms_spec,          \* the ShutItSendSpec built by ShutIt.multisend
    ms_args,          \* the arguments the caller passed to ShutIt.multisend
    emitted,          \* what the dialog has shown, in order
    ms_sent,          \* what multisend wrote to the child, in order
    ms_outcome        \* how the multisend ended

VARIABLES
    \* ---- the orchestrator (shutit.py) ----
    phase,            \* the phase in progress
    mod_idx,          \* position in the phase's loop over module ids
    cfg_build,        \* cfg[m]['shutit.core.module.build']
    cfg_remove,       \* cfg[m]['shutit.core.module.remove']
    delivery,         \* shutit.build['delivery']
    deps_only,        \* shutit.build['deps_only']
    dotest,           \* shutit.build['dotest']
    modules_ready,    \* the environment's modules_ready list
    modules_installed,     \* the environment's modules_installed list
    modules_not_installed, \* the environment's modules_not_installed list
    ph_logins,        \* logins issued by the phases
    ph_logouts,       \* logouts issued by the phases
    ph_start_stack,   \* login_stack and default_expect when the phase began
    run_outcome,      \* "running", "completed", or "fatal"
    ph_failure,       \* what ended the run: cause, operation, session handle
    ph_ops,           \* the operations the phase in progress has invoked, in order
    ph_not_ready      \* the modules whose check_ready answered False in this run

VARIABLES
    \* ---- fail ----
    fl_pc,            \* idle, called, propagate, done
    fl_args,          \* the arguments of the call of ShutIt.fail in progress
    fl_pause_calls,   \* calls of the session's pause_point made by this call
    fl_pauses,        \* interactive pauses that took place in this call
    fl_outcome,       \* how the call ended
    fl_calls          \* calls of ShutIt.fail made so far

eaiVars == <<pc, arg_timeout, arg_iteration_s, nexpect, timeout, iteration_s,
             accum_timeout, timed_out, res, ctrlc_stop, interactive,
             child_sent, pause_points, polls, probes, matches, outcome>>

sessVars == <<login_stack, default_expect>>
sessHist == <<sess_outcome, sess_last, saved, popped, run_logins, run_logouts>>
sendVars == <<snd_pc, sendspec, snd_args, transmitted, statuses, snd_outcome>>
msVars == <<ms_pc, ms_spec, ms_args, emitted, ms_sent, ms_outcome>>
phVars == <<phase, mod_idx, cfg_build, cfg_remove, delivery, deps_only, dotest,
            modules_ready, modules_installed, modules_not_installed,
            ph_logins, ph_logouts, ph_start_stack, run_outcome, ph_failure,
            ph_ops, ph_not_ready>>

VARIABLES
    \* ---- the environment registry ----
    registry,         \* self.shutit_pexpect_session_environments
    rg_pc,            \* per session: idle, looked, done
    rg_id,            \* per session: the environment id it asks for
    rg_found,         \* per session: what its lookup returned
    rg_ref,           \* per session: the environment it references
    rg_added,         \* the environment ids added so far
    rg_next,          \* identity of the next environment object created
    rg_outcome        \* "running", or the fatal failure of a lookup

failVars == <<fl_pc, fl_args, fl_pause_calls, fl_pauses, fl_outcome, fl_calls>>

regVars == <<registry, rg_pc, rg_id, rg_found, rg_ref, rg_added, rg_next,
             rg_outcome>>

VARIABLES
    \* ---- is_ready ----
    rd_calls, \* per module: invocations of the module's check_ready
    rd_returns  \* per module: what is_ready returned, call by call

readyVars == <<rd_calls, rd_returns>>

VARIABLES
    \* ---- stop_all / start_all ----
    sa_calls, \* the calls of stop_all and start_all made, with the operations each invoked
    sa_outcome  \* "running", or "fatal" once a stop or start has returned False

stopStartVars == <<sa_calls, sa_outcome>>

VARIABLES
    \* ---- init_shutit_map ----
    shutit_modules, \* shutit.shutit_modules: the loaded module objects
    shutit_map, \* shutit.shutit_map: module id -> module object
    run_orders, \* local run_orders: run order -> module object
    has_core_module, \* local has_core_module
    mp_todo, \* the modules the loop has yet to visit
    mp_pc, \* idle, check, loop, end, done
    mp_outcome  \* "running", "completed" or "fatal"

mapVars == <<shutit_modules, shutit_map, run_orders, has_core_module, mp_todo, mp_pc, mp_outcome>>

VARIABLES
    \* ---- setup_shutit_obj ----
    su_pc, \* idle, deps, lists, conflicts, ready, errs, do_remove, do_build, rest, done
    su_choose_config, \* build['interactive'] > 0 and build['choose_config']
    su_list_deps, \* action['list_deps']
    su_found, \* the problems the run's modules have: dependency, conflict, not ready
    errs, \* local errs: the checks whose errors were collected, in order
    su_executed, \* the functions setup_shutit_obj has called, in order
    su_outcome  \* "running", "completed", "exit" or "fatal"

setupVars == <<su_pc, su_choose_config, su_list_deps, su_found, errs, su_executed, su_outcome>>

VARIABLES
    \* ---- check_deps ----
    depends_on, \* per module: the module ids of its depends_on list
    build_ifneeded, \* cfg[m]['shutit.core.module.build_ifneeded']
    to_build, \* local to_build: the modules to build, as collected
    dp_idx, \* position of the loop over to_build
    dp_pc, \* idle, resolve, check, done
    found_errs  \* local found_errs: the errors collected, in order

depVars == <<depends_on, build_ifneeded, to_build, dp_idx, dp_pc, found_errs>>

VARIABLES
    \* ---- passwords the program sends: do_repository_work, push_repository, conn_docker_start_container ----
    pw_pc, \* position in the container start / repository work
    pw_res, \* res: index of the pattern the last expect or send matched
    pw_cfg, \* host and repository passwords, the password argument, repository flags
    pw_history, \* commands appended to the session command history
    pw_prompts  \* password prompts answered by conn_docker_start_container

secretVars == <<pw_pc, pw_res, pw_cfg, pw_history, pw_prompts>>

vars == <<eaiVars, sessVars, sessHist, sendVars, msVars, phVars, failVars,
          regVars,
          readyVars,
          stopStartVars,
          mapVars,
          setupVars,
          depVars,
          secretVars>>

notEAI == <<sessVars, sessHist, sendVars, msVars, phVars, failVars, regVars,
          readyVars,
          stopStartVars,
          mapVars,
          setupVars,
          depVars,
          secretVars>>
notSession == <<eaiVars, sendVars, msVars, phVars, failVars, regVars,
          readyVars,
          stopStartVars,
          mapVars,
          setupVars,
          depVars,
          secretVars>>
notSend == <<eaiVars, sessVars, sessHist, msVars, phVars, failVars, regVars,
          readyVars,
          stopStartVars,
          mapVars,
          setupVars,
          depVars,
          secretVars>>
notMulti == <<eaiVars, sessVars, sessHist, sendVars, phVars, failVars, regVars,
          readyVars,
          stopStartVars,
          mapVars,
          setupVars,
          depVars,
          secretVars>>
notPhases == <<eaiVars, sessHist, sendVars, msVars, failVars, regVars,
          readyVars,
          stopStartVars,
          mapVars,
          setupVars,
          depVars,
          secretVars>>
notFail == <<eaiVars, sessVars, sessHist, sendVars, msVars, phVars, regVars,
          readyVars,
          stopStartVars,
          mapVars,
          setupVars,
          depVars,
          secretVars>>
notRegistry == <<eaiVars, sessVars, sessHist, sendVars, msVars, phVars,
                 failVars,
          readyVars,
          stopStartVars,
          mapVars,
          setupVars,
          depVars,
          secretVars>>
notStopStart == <<eaiVars, sessVars, sessHist, sendVars, msVars,
       phVars, failVars, regVars, readyVars,
          mapVars,
          setupVars,
          depVars,
          secretVars>>
notReady == <<eaiVars, sessVars, sessHist, sendVars, msVars, failVars,
             regVars,
          stopStartVars,
          mapVars,
          setupVars,
          depVars,
          secretVars>>
notSetup == <<eaiVars, sessVars, sessHist, sendVars, msVars,
       phVars, failVars, regVars, readyVars, stopStartVars,
       mapVars,
          depVars,
          secretVars>>
notMap == <<eaiVars, sessVars, sessHist, sendVars, msVars,
       phVars, failVars, regVars, readyVars, stopStartVars,
          setupVars,
          depVars,
          secretVars>>
notSecrets == <<eaiVars, sessVars, sessHist, sendVars, msVars,
       phVars, failVars, regVars, readyVars, stopStartVars,
       mapVars, setupVars, depVars>>
notDeps == <<eaiVars, sessVars, sessHist, sendVars, msVars,
       failVars, regVars, readyVars, stopStartVars,
       mapVars, setupVars,
          secretVars>>

(***************************************************************************)
(* Values shared by the components.                                        *)
(***************************************************************************)
None == "None"
\* The sessions that share the ShutIt object.
Sessions == {"session_1", "session_2"}
\* None, where an environment object is expected.
NoEnv == [obj |-> 0, environment_id |-> "None"]
RootPrompt == "root_prompt"
Modules == 1 .. NModules

Top(stack) == stack[Len(stack)]
Pop(stack) == SubSeq(stack, 1, Len(stack) - 1)

NoOutcome == [kind |-> "none", value |-> -1, msg |-> ""]
NoFailure == [cause |-> "none", op |-> "none", handle |-> None, kind |-> "none"]
Returned(v) == [kind |-> "return", value |-> v, msg |-> ""]

(***************************************************************************)
(* The state of a component that a specification does not drive.           *)
(***************************************************************************)
EAIIdle ==
    /\ pc = "idle"
    /\ arg_timeout = 0
    /\ arg_iteration_s = 0
    /\ nexpect = 1
    /\ timeout = 0
    /\ iteration_s = 0
    /\ accum_timeout = 0
    /\ timed_out = TRUE
    /\ res = -1
    /\ ctrlc_stop = FALSE
    /\ child_sent = <<>>
    /\ pause_points = 0
    /\ polls = 0
    /\ probes = 0
    /\ matches = 0
    /\ outcome = NoOutcome

SessionIdle ==
    /\ login_stack = <<[prompt |-> RootPrompt, command |-> "bash"]>>
    /\ default_expect = RootPrompt

SessionHistIdle ==
    /\ sess_outcome = "running"
    /\ sess_last = [op |-> "none", ret |-> "none", fail_on_fail |-> FALSE,
                    reached |-> FALSE]
    /\ saved = <<>>
    /\ popped = [default |-> RootPrompt, top |-> RootPrompt]
    /\ run_logins = 0
    /\ run_logouts = 0

SendIdle ==
    /\ snd_pc = "idle"
    /\ sendspec = [send |-> None]
    /\ snd_args = [op |-> None, send |-> None]
    /\ transmitted = <<>>
    /\ statuses = <<>>
    /\ snd_outcome = NoOutcome

MultiIdle ==
    /\ ms_pc = "idle"
    /\ ms_spec = [send |-> None]
    /\ ms_args = [send |-> None]
    /\ emitted = <<>>
    /\ ms_sent = <<>>
    /\ ms_outcome = NoOutcome

PhasesIdle ==
    /\ phase = [fn |-> "idle", in_loop |-> FALSE]
    /\ mod_idx = 1
    /\ cfg_build = [m \in Modules |-> FALSE]
    /\ cfg_remove = [m \in Modules |-> FALSE]
    /\ delivery = "bash"
    /\ deps_only = FALSE
    /\ dotest = FALSE
    /\ modules_ready = <<>>
    /\ modules_installed = <<>>
    /\ modules_not_installed = <<>>
    /\ ph_logins = 0
    /\ ph_logouts = 0
    /\ ph_start_stack = <<>>
    /\ run_outcome = "running"
    /\ ph_failure = NoFailure
    /\ ph_ops = <<>>
    /\ ph_not_ready = {}

FailIdle ==
    /\ fl_pc = "idle"
    /\ fl_args = [msg |-> "", shutit_pexpect_child |-> None,
                  throw_exception |-> FALSE]
    /\ fl_pause_calls = 0
    /\ fl_pauses = 0
    /\ fl_outcome = NoOutcome
    /\ fl_calls = 0

RegistryIdle ==
    /\ registry = {}
    /\ rg_pc = [p \in Sessions |-> "idle"]
    /\ rg_id = [p \in Sessions |-> None]
    /\ rg_found = [p \in Sessions |-> NoEnv]
    /\ rg_ref = [p \in Sessions |-> NoEnv]
    /\ rg_added = {}
    /\ rg_next = 1
    /\ rg_outcome = NoOutcome

\* The components added to the model after the first five are at rest.
ReadyIdle ==
    /\ rd_calls = [m \in Modules |-> 0]
    /\ rd_returns = [m \in Modules |-> <<>>]

StopStartIdle ==
    /\ sa_calls = <<>>
    /\ sa_outcome = "running"

MapIdle ==
    /\ shutit_modules = {}
    /\ shutit_map = <<>>
    /\ run_orders = <<>>
    /\ has_core_module = FALSE
    /\ mp_todo = {}
    /\ mp_pc = "idle"
    /\ mp_outcome = "running"

SetupIdle ==
    /\ su_pc = "idle"
    /\ su_choose_config = FALSE
    /\ su_list_deps = FALSE
    /\ su_found = [deps |-> 0, conflicts |-> 0, not_ready |-> 0]
    /\ errs = <<>>
    /\ su_executed = <<>>
    /\ su_outcome = "running"

DepsIdle ==
    /\ depends_on = [m \in Modules |-> {}]
    /\ build_ifneeded = [m \in Modules |-> FALSE]
    /\ to_build = <<>>
    /\ dp_idx = 1
    /\ dp_pc = "idle"
    /\ found_errs = <<>>

\* No container start and no repository work is in progress.
NoRepository ==
    [host_password |-> "", repository_password |-> "", password |-> "",
     export |-> FALSE, save |-> FALSE, push |-> FALSE]

SecretsIdle ==
    /\ pw_pc = "idle"
    /\ pw_res = 1
    /\ pw_cfg = NoRepository
    /\ pw_history = <<>>
    /\ pw_prompts = 0

LaterIdle == ReadyIdle /\ StopStartIdle /\ MapIdle /\ SetupIdle /\ DepsIdle /\ SecretsIdle

OthersIdle == FailIdle /\ RegistryIdle /\ LaterIdle

(***************************************************************************)
(* ShutIt.fail(msg) called with no child and throw_exception=False: no     *)
(* pause point, the message is logged and handle_exit(exit_code=1) ends    *)
(* the run.  With throw_exception=True a ShutItFailException is raised.    *)
(***************************************************************************)
fail(msg, throw_exception) ==
    [kind  |-> IF throw_exception THEN "exception" ELSE "exit",
     value |-> 1,
     msg   |-> msg]

Fatal(o) == o.kind \in {"exit", "exception"}

(***************************************************************************)
(* expect_allow_interrupt, lines 556-561: the clamps of timeout and        *)
(* iteration_s.                                                            *)
(***************************************************************************)
ClampTimeout(t) == IF t < 1 THEN 1 ELSE t

ClampIteration_NoFloor(t, q) ==
    IF q > t THEN t - 1 ELSE q

ClampIteration(t, q) ==
    LET q1 == IF q > t THEN t - 1 ELSE q
    IN  IF q1 < 1 THEN 1 ELSE q1

(***************************************************************************)
(* What a wait can answer.  shutit_pexpect_session.expect(expect, ...)     *)
(* answers the index of the pattern that matched, len(expect) when the     *)
(* wait timed out and len(expect)+1 on EOF (shutit_shared.py reads 7 and 8 *)
(* that way for a list of 7 patterns).  The re-probes of lines 579 and 582 *)
(* are read by the code as an index or len(expect) for a miss.             *)
(***************************************************************************)
PollResults(n) == 0 .. (n + 1)
ProbeResults(n) == 0 .. n

IsMatch(r, n) == r \in 0 .. (n - 1)

(***************************************************************************)
(* Lines 565-572: what one turn of the loop does with the poll's answer r, *)
(* given len(expect) = n and the cancel flag: "return" r, "break" out of   *)
(* the loop (clearing the flag), or "accumulate" and poll again.           *)
(***************************************************************************)
LoopBranch_MatchAccumulates(r, n, flag) ==
    IF r >= n - 1
    THEN IF flag THEN "break" ELSE "accumulate"
    ELSE "return"

LoopBranch_FlagIgnored(r, n, flag) ==
    IF r = n THEN "accumulate" ELSE "return"

LoopBranch(r, n, flag) ==
    IF r = n
    THEN IF flag THEN "break" ELSE "accumulate"
    ELSE "return"

(***************************************************************************)
(* Lines 573-591: the branch taken after the loop, from timed_out and the  *)
(* answer of determine_interactive.                                        *)
(***************************************************************************)
AfterLoopBranch_AlwaysInterrupts(to, inter) ==
    "interrupt"

AfterLoopBranch(to, inter) ==
    IF to /\ ~inter
    THEN "fail_timed_out"
    ELSE IF inter
         THEN "interrupt"
         ELSE IF to THEN "fail_interactive" ELSE "fail_ctrlc"

(***************************************************************************)
(* Lines 580 and 583: a re-probe missed when it answers len(expect).       *)
(***************************************************************************)
ProbeMissed_EOFIndex(r, n) == r = n + 1

ProbeMissed(r, n) == r = n

(***************************************************************************)
(* Line 570: a poll that timed out adds its quantum to accum_timeout.      *)
(***************************************************************************)
Accumulate_Stalls(accum, q) == accum

Accumulate(accum, q) == accum + q

InitEAI ==
    /\ OthersIdle
    /\ EAIIdle
    /\ interactive \in BOOLEAN
    /\ SessionIdle /\ SessionHistIdle /\ SendIdle /\ MultiIdle /\ PhasesIdle

(***************************************************************************)
(* The ctrl-c handler of the run sets build['ctrlc_stop']; it may run at   *)
(* any moment while the call is in progress, and before it.                *)
(***************************************************************************)
CtrlC ==
    /\ pc # "done"
    /\ ~ctrlc_stop
    /\ ctrlc_stop' = TRUE
    /\ UNCHANGED <<pc, arg_timeout, arg_iteration_s, nexpect, timeout, iteration_s,
                   accum_timeout, timed_out, res, interactive, child_sent,
                   pause_points, polls, probes, matches, outcome>>
    /\ UNCHANGED notEAI

(***************************************************************************)
(* Lines 552-562: entry of expect_allow_interrupt(expect, timeout,         *)
(* iteration_s).  timeout >= 1 after the clamp, so the loop is entered.    *)
(***************************************************************************)
EAI_Call ==
    /\ pc = "idle"
    /\ \E t \in -1 .. MaxTimeout, q \in 0 .. MaxIteration, n \in 1 .. MaxPatterns :
          /\ arg_timeout' = t
          /\ arg_iteration_s' = q
          /\ nexpect' = n
          /\ timeout' = ClampTimeout(t)
          /\ iteration_s' = ClampIteration(ClampTimeout(t), q)
    /\ accum_timeout' = 0
    /\ timed_out' = TRUE
    /\ pc' = "loop"
    /\ UNCHANGED <<res, ctrlc_stop, interactive, child_sent, pause_points,
                   polls, probes, matches, outcome>>
    /\ UNCHANGED notEAI

(***************************************************************************)
(* Lines 563-572: one turn of the polling loop.                            *)
(***************************************************************************)
EAI_Poll ==
    /\ pc = "loop"
    /\ accum_timeout < timeout
    /\ \E r \in PollResults(nexpect) :
          /\ res' = r
          /\ polls' = polls + 1
          /\ matches' = IF IsMatch(r, nexpect) THEN matches + 1 ELSE matches
          /\ CASE LoopBranch(r, nexpect, ctrlc_stop) = "break" ->
                    /\ timed_out' = FALSE
                    /\ ctrlc_stop' = FALSE
                    /\ pc' = "after_loop"
                    /\ UNCHANGED <<accum_timeout, outcome>>
               [] LoopBranch(r, nexpect, ctrlc_stop) = "accumulate" ->
                    /\ accum_timeout' = Accumulate(accum_timeout, iteration_s)
                    /\ pc' = IF Accumulate(accum_timeout, iteration_s) < timeout
                             THEN "loop" ELSE "after_loop"
                    /\ UNCHANGED <<timed_out, ctrlc_stop, outcome>>
               [] OTHER ->
                    /\ outcome' = Returned(r)
                    /\ pc' = "done"
                    /\ UNCHANGED <<accum_timeout, timed_out, ctrlc_stop>>
    /\ UNCHANGED <<arg_timeout, arg_iteration_s, nexpect, timeout, iteration_s,
                   interactive, child_sent, pause_points, probes>>
    /\ UNCHANGED notEAI

(***************************************************************************)
(* Lines 573-578 and 587-591: what follows the loop.                       *)
(***************************************************************************)
EAI_AfterLoop ==
    /\ pc = "after_loop"
    /\ CASE AfterLoopBranch(timed_out, interactive) = "fail_timed_out" ->
              /\ outcome' = fail("Timed out and could not recover", FALSE)
              /\ pc' = "done"
              /\ UNCHANGED child_sent
         [] AfterLoopBranch(timed_out, interactive) = "interrupt" ->
              /\ child_sent' = Append(child_sent, ETX)
              /\ pc' = "probe1"
              /\ UNCHANGED outcome
         [] AfterLoopBranch(timed_out, interactive) = "fail_interactive" ->
              /\ outcome' = fail("Timed out and interactive, but could not recover", FALSE)
              /\ pc' = "done"
              /\ UNCHANGED child_sent
         [] OTHER ->
              /\ outcome' = fail("CTRL-C hit and could not recover", FALSE)
              /\ pc' = "done"
              /\ UNCHANGED child_sent
    /\ UNCHANGED <<arg_timeout, arg_iteration_s, nexpect, timeout, iteration_s,
                   accum_timeout, timed_out, res, ctrlc_stop, interactive,
                   pause_points, polls, probes, matches>>
    /\ UNCHANGED notEAI

(***************************************************************************)
(* Lines 579-581: the re-probe after the interrupt byte.                   *)
(***************************************************************************)
EAI_Probe1 ==
    /\ pc = "probe1"
    /\ \E r \in ProbeResults(nexpect) :
          /\ res' = r
          /\ matches' = IF IsMatch(r, nexpect) THEN matches + 1 ELSE matches
          /\ IF ProbeMissed(r, nexpect)
             THEN /\ child_sent' = Append(child_sent, SUB)
                  /\ pc' = "probe2"
             ELSE /\ pc' = "pause"
                  /\ UNCHANGED child_sent
    /\ probes' = probes + 1
    /\ UNCHANGED <<arg_timeout, arg_iteration_s, nexpect, timeout, iteration_s,
                   accum_timeout, timed_out, ctrlc_stop, interactive,
                   pause_points, polls, outcome>>
    /\ UNCHANGED notEAI

(***************************************************************************)
(* Lines 582-584: the re-probe after the suspend byte.                     *)
(***************************************************************************)
EAI_Probe2 ==
    /\ pc = "probe2"
    /\ \E r \in ProbeResults(nexpect) :
          /\ res' = r
          /\ matches' = IF IsMatch(r, nexpect) THEN matches + 1 ELSE matches
          /\ IF ProbeMissed(r, nexpect)
             THEN /\ outcome' = fail("CTRL-C sent by ShutIt following a timeout, and could not recover", FALSE)
                  /\ pc' = "done"
             ELSE /\ pc' = "pause"
                  /\ UNCHANGED outcome
    /\ probes' = probes + 1
    /\ UNCHANGED <<arg_timeout, arg_iteration_s, nexpect, timeout, iteration_s,
                   accum_timeout, timed_out, ctrlc_stop, interactive, child_sent,
                   pause_points, polls>>
    /\ UNCHANGED notEAI

(***************************************************************************)
(* Lines 585-586: the pause point, then return res.                        *)
(***************************************************************************)
EAI_Pause_NoPausePoint ==
    /\ pc = "pause"
    /\ outcome' = Returned(res)
    /\ pc' = "done"
    /\ UNCHANGED <<arg_timeout, arg_iteration_s, nexpect, timeout, iteration_s,
                   accum_timeout, timed_out, res, ctrlc_stop, interactive,
                   child_sent, pause_points, polls, probes, matches>>
    /\ UNCHANGED notEAI

EAI_Pause ==
    /\ pc = "pause"
    /\ pause_points' = pause_points + 1
    /\ outcome' = Returned(res)
    /\ pc' = "done"
    /\ UNCHANGED <<arg_timeout, arg_iteration_s, nexpect, timeout, iteration_s,
                   accum_timeout, timed_out, res, ctrlc_stop, interactive,
                   child_sent, polls, probes, matches>>
    /\ UNCHANGED notEAI

NextEAI ==
    \/ CtrlC
    \/ EAI_Call
    \/ EAI_Poll
    \/ EAI_AfterLoop
    \/ EAI_Probe1
    \/ EAI_Probe2
    \/ EAI_Pause

SpecEAI == InitEAI /\ [][NextEAI]_vars

\* The call runs on: each wait answers within its timeout and the statement
\* after it is executed.
SpecEAILive ==
    /\ SpecEAI
    /\ WF_vars(EAI_Poll)
    /\ WF_vars(EAI_AfterLoop)
    /\ WF_vars(EAI_Probe1)
    /\ WF_vars(EAI_Probe2)
    /\ WF_vars(EAI_Pause)

(***************************************************************************)
(* Properties of expect_allow_interrupt (checked under SpecEAI).           *)
(***************************************************************************)
Finished == pc = "done"
AllWaitsMissed == polls > 0 /\ matches = 0 /\ res = nexpect

\* C1: in an attended context, when every quantum poll and every re-probe
\* misses, the call sends exactly one ETX, then exactly one SUB, in that
\* order, and then fails fatally; it never sends more than one of either.
C1_OneInterruptOneSuspendThenFatal ==
    interactive =>
        /\ child_sent \in {<<>>, <<ETX>>, <<ETX, SUB>>}
        /\ (Finished /\ AllWaitsMissed) =>
              (child_sent = <<ETX, SUB>> /\ Fatal(outcome))

C1_Witness ==
    /\ Finished /\ interactive /\ AllWaitsMissed
    /\ timed_out /\ accum_timeout >= timeout
    /\ child_sent = <<ETX, SUB>>
    /\ Fatal(outcome)

\* C2: in an attended context, once the accumulated wait has reached the
\* timeout: a re-probe that matches after the interrupt byte means no suspend
\* byte is sent, and whenever either re-probe matches, the pause point is
\* raised exactly once and the call returns the index that matched.
C2_ReprobeMatchPausesOnceAndReturns ==
    (interactive /\ timed_out /\ accum_timeout >= timeout) =>
        /\ (pc = "pause") => (IsMatch(res, nexpect) /\ pause_points = 0)
        /\ (probes = 1 /\ pc \in {"pause", "done"}) => child_sent = <<ETX>>
        /\ (Finished /\ probes >= 1 /\ IsMatch(res, nexpect)) =>
              (pause_points = 1 /\ outcome = Returned(res))

C2_Witness ==
    /\ Finished /\ interactive /\ timed_out /\ accum_timeout >= timeout
    /\ probes = 1 /\ IsMatch(res, nexpect)
    /\ child_sent = <<ETX>>
    /\ pause_points = 1
    /\ outcome = Returned(res)

\* C3 (as claimed): a call whose loop was left on the cancel flag never ends
\* in a fatal failure, attended or not.
C3_CancelNeverFatal ==
    (Finished /\ ~timed_out) => ~Fatal(outcome)

\* C3 (amended): when a quantum poll misses and the cancel flag is set, the
\* call makes no further quantum poll and clears the flag; unattended it then
\* fails fatally ("CTRL-C hit and could not recover") without sending
\* anything, attended it goes through the interrupt/suspend re-probes and
\* returns the matched index after one pause, or fails fatally when both miss.
C3_CancelStopsPollingThenEscalates ==
    [][ /\ (pc = "loop" /\ ctrlc_stop /\ polls' = polls + 1 /\ res' = nexpect) =>
              (~ctrlc_stop' /\ ~timed_out' /\ pc' = "after_loop")
        /\ (~timed_out) => (polls' = polls)
        /\ (~timed_out' /\ pc' = "done") =>
              IF interactive'
              THEN /\ child_sent' \in {<<ETX>>, <<ETX, SUB>>}
                   /\ IF res' = nexpect
                      THEN Fatal(outcome') /\ child_sent' = <<ETX, SUB>>
                      ELSE outcome' = Returned(res') /\ pause_points' = 1
              ELSE /\ outcome' = fail("CTRL-C hit and could not recover", FALSE)
                   /\ child_sent' = <<>>
      ]_vars

C3_Witness ==
    /\ Finished /\ ~timed_out /\ ~interactive
    /\ ~ctrlc_stop
    /\ accum_timeout < timeout
    /\ Fatal(outcome)

\* C4: in an unattended context, when the accumulated wait reaches the
\* timeout with no match and no cancel request, the call fails fatally and
\* sends neither the interrupt nor the suspend byte.
C4_UnattendedTimeoutFatalNoSignal ==
    (~interactive /\ timed_out /\ accum_timeout >= timeout /\ pc \in {"probe1", "probe2", "pause", "done"}) =>
        /\ Finished
        /\ Fatal(outcome)
        /\ child_sent = <<>>
        /\ probes = 0

C4_Witness ==
    /\ Finished /\ ~interactive /\ timed_out /\ accum_timeout >= timeout
    /\ AllWaitsMissed
    /\ Fatal(outcome)
    /\ child_sent = <<>>

\* C5 (as claimed): the quantum passed to each poll is between 1 and T-1,
\* T the timeout the caller passed.
C5_QuantumBelowTimeout ==
    (polls > 0) => (1 <= iteration_s /\ iteration_s <= arg_timeout - 1)

\* C5 (amended): the quantum passed to each poll is at least 1 and at most
\* max(T, 1), T the timeout the caller passed.
C5_QuantumWithinClampedTimeout ==
    (polls > 0) =>
        /\ 1 <= iteration_s
        /\ iteration_s <= (IF arg_timeout < 1 THEN 1 ELSE arg_timeout)

C5_Witness ==
    /\ polls > 0
    /\ arg_timeout >= 2
    /\ iteration_s = arg_timeout
    /\ arg_iteration_s = arg_timeout

\* C6: a quantum poll that matches a pattern before the accumulated wait
\* reaches the timeout ends the call at once with that pattern's index, and
\* no interrupt byte, no suspend byte and no pause point is issued.
C6_PollMatchReturnsAtOnce ==
    (polls > 0 /\ probes = 0 /\ IsMatch(res, nexpect)) =>
        /\ Finished
        /\ outcome = Returned(res)
        /\ child_sent = <<>>
        /\ pause_points = 0

C6_Witness ==
    /\ Finished /\ polls > 1 /\ probes = 0 /\ IsMatch(res, nexpect)
    /\ accum_timeout < timeout
    /\ outcome = Returned(res)
    /\ child_sent = <<>>

\* The last wait of the call was answered by EOF (the answer after the
\* timeout's, see conn_docker_start_container).
EOFSeen == polls > 0 /\ res = nexpect + 1

\* C13: whenever a wait is answered by EOF the call ends in a fatal failure;
\* the EOF answer is never returned to the caller as if it were an index.
C13_EOFAlwaysFatal ==
    (Finished /\ EOFSeen) => Fatal(outcome)

\* ceil(a / b) for b > 0.
CeilDiv(a, b) == (a + b - 1) \div b

\* C18 (as claimed): the quantum polls of a call number at most ceil(T/q),
\* T the timeout the caller passed and q the quantum of each poll, and at
\* most two re-probes follow.
C18_PollsWithinPassedTimeout ==
    pc # "idle" =>
        /\ polls <= (IF arg_timeout <= 0 THEN 0
                     ELSE CeilDiv(arg_timeout, iteration_s))
        /\ probes <= 2

\* C18 (amended): every call ends, after at most ceil(max(T, 1)/q) quantum
\* polls, q the quantum of each poll, followed by at most two re-probes.
C18_CallEndsWithinBoundedWaits ==
    /\ [](pc # "idle" =>
            /\ iteration_s >= 1
            /\ polls <= CeilDiv(ClampTimeout(arg_timeout), iteration_s)
            /\ probes <= 2)
    /\ (pc # "idle") ~> Finished

C18_Witness ==
    /\ Finished
    /\ arg_timeout = 0
    /\ polls = 1
    /\ probes = 2
    /\ Fatal(outcome)

\* C15: every fatal failure of a call in an attended context has been
\* preceded, within the call, by an interactive pause offered to the
\* operator.
C15_AttendedFatalPrecededByPause ==
    (interactive /\ Finished /\ Fatal(outcome)) => pause_points >= 1

(***************************************************************************)
(* The login/logout manager.                                               *)
(***************************************************************************)
Prefixes == {"mod_a", "mod_b"}
CustomExpect == "custom_expect"

(***************************************************************************)
(* ShutIt.set_default_shutit_pexpect_session_expect(expect): the value     *)
(* default_expect gets, the configured root prompt when expect is None.    *)
(***************************************************************************)
SetDefaultExpect_AlwaysRoot(expect) == RootPrompt

SetDefaultExpect(expect) ==
    IF expect = None THEN RootPrompt ELSE expect

(***************************************************************************)
(* ShutIt.login and ShutIt.logout: the ShutItSendSpec handed to the        *)
(* session's login and logout.                                             *)
(***************************************************************************)
ShutIt_login_AlwaysFailOnFail(command, prompt_prefix, fail_on_fail) ==
    [send |-> command, user |-> "root", prompt_prefix |-> prompt_prefix,
     go_home |-> TRUE, fail_on_fail |-> TRUE]

ShutIt_login(command, prompt_prefix, fail_on_fail) ==
    [send |-> command, user |-> "root", prompt_prefix |-> prompt_prefix,
     go_home |-> TRUE, fail_on_fail |-> fail_on_fail]

ShutIt_logout(command) ==
    [send |-> command]

(***************************************************************************)
(* The prompt installed for a login depth: it embeds the prefix and the    *)
(* depth, so every depth has a pattern of its own.                         *)
(***************************************************************************)
setup_prompt(prefix, level) == prefix \o "_prompt_" \o ToString(level)

(***************************************************************************)
(* The session's login on reaching the new prompt: a fresh prompt for the  *)
(* new depth, a new Context pushed, the default expect rebound.            *)
(***************************************************************************)
LoginStack(stack, spec) ==
    Append(stack, [prompt  |-> setup_prompt(spec.prompt_prefix, Len(stack) + 1),
                   command |-> spec.send])

LoginExpect(stack, spec) ==
    SetDefaultExpect(Top(LoginStack(stack, spec)).prompt)

(***************************************************************************)
(* The session's logout: the Context popped, the prior prompt pattern      *)
(* restored as default.                                                    *)
(***************************************************************************)
LogoutStack(stack) == Pop(stack)

LogoutExpect(stack) == SetDefaultExpect(Top(Pop(stack)).prompt)

InitSession ==
    /\ OthersIdle
    /\ SessionIdle /\ SessionHistIdle
    /\ EAIIdle /\ interactive = FALSE
    /\ SendIdle /\ MultiIdle /\ PhasesIdle

(***************************************************************************)
(* A caller sets the default expect (None: the root prompt).               *)
(***************************************************************************)
Sess_SetDefaultExpect ==
    /\ sess_outcome = "running"
    /\ \E e \in {None, CustomExpect} :
          /\ default_expect' = SetDefaultExpect(e)
          /\ sess_last' = [op |-> "set_default", ret |-> "True",
                           fail_on_fail |-> FALSE, reached |-> FALSE]
    /\ run_logins' = 0
    /\ run_logouts' = 0
    /\ UNCHANGED <<login_stack, sess_outcome, saved, popped>>
    /\ UNCHANGED notSession

(***************************************************************************)
(* login(): the entry command reaches the new prompt or does not; a        *)
(* failure is fatal with fail_on_fail, else login answers False and the    *)
(* stack is left as it was.                                                *)
(***************************************************************************)
Sess_Login ==
    /\ sess_outcome = "running"
    /\ Len(login_stack) < MaxDepth
    /\ \E prefix \in Prefixes, fof \in BOOLEAN, reached \in BOOLEAN :
          LET spec == ShutIt_login("su -", prefix, fof) IN
          IF reached
          THEN /\ login_stack' = LoginStack(login_stack, spec)
               /\ default_expect' = LoginExpect(login_stack, spec)
               /\ saved' = Append(saved, [default |-> default_expect,
                                          top     |-> Top(login_stack).prompt])
               /\ run_logins' = IF run_logouts > 0 THEN 1 ELSE run_logins + 1
               /\ run_logouts' = 0
               /\ sess_last' = [op |-> "login", ret |-> "True",
                                 fail_on_fail |-> fof, reached |-> reached]
               /\ UNCHANGED <<sess_outcome, popped>>
          ELSE IF spec.fail_on_fail
               THEN /\ sess_outcome' = "fatal"
                    /\ sess_last' = [op |-> "login", ret |-> "fatal",
                                 fail_on_fail |-> fof, reached |-> reached]
                    /\ UNCHANGED <<login_stack, default_expect, saved, popped,
                                   run_logins, run_logouts>>
               ELSE /\ sess_last' = [op |-> "login", ret |-> "False",
                                 fail_on_fail |-> fof, reached |-> reached]
                    /\ run_logins' = 0
                    /\ run_logouts' = 0
                    /\ UNCHANGED <<login_stack, default_expect, sess_outcome,
                                   saved, popped>>
    /\ UNCHANGED notSession

(***************************************************************************)
(* logout(): pops the Context and restores the prior prompt; with only the *)
(* root context on the stack it is an assertion failure.                   *)
(***************************************************************************)
Sess_Logout_PopsRoot ==
    /\ sess_outcome = "running"
    /\ login_stack' = LogoutStack(login_stack)
    /\ default_expect' = RootPrompt
    /\ sess_last' = [op |-> "logout", ret |-> ShutIt_logout("exit").send,
                     fail_on_fail |-> FALSE, reached |-> FALSE]
    /\ run_logouts' = run_logouts + 1
    /\ UNCHANGED <<sess_outcome, saved, popped, run_logins>>
    /\ UNCHANGED notSession

Sess_Logout ==
    /\ sess_outcome = "running"
    /\ LET spec == ShutIt_logout("exit") IN
       IF Len(login_stack) > 1
       THEN /\ login_stack' = LogoutStack(login_stack)
            /\ default_expect' = LogoutExpect(login_stack)
            /\ popped' = Top(saved)
            /\ saved' = Pop(saved)
            /\ run_logouts' = run_logouts + 1
            /\ sess_last' = [op |-> "logout", ret |-> spec.send,
                              fail_on_fail |-> FALSE, reached |-> FALSE]
            /\ UNCHANGED <<sess_outcome, run_logins>>
       ELSE /\ sess_outcome' = "assertion"
            /\ sess_last' = [op |-> "logout", ret |-> "assertion",
                              fail_on_fail |-> FALSE, reached |-> FALSE]
            /\ UNCHANGED <<login_stack, default_expect, saved, popped,
                           run_logins, run_logouts>>
    /\ UNCHANGED notSession

NextSession ==
    \/ Sess_SetDefaultExpect
    \/ Sess_Login
    \/ Sess_Logout

SpecSession == InitSession /\ [][NextSession]_vars

(***************************************************************************)
(* Properties of login/logout (checked under SpecSession).                 *)
(***************************************************************************)
\* The last operation closed a bracket of N logins followed by N logouts,
\* N = run_logouts: the logout just made is the N-th in a row and at least N
\* successful logins in a row came right before them.
BracketClosed ==
    /\ sess_last.op = "logout" /\ sess_last.ret # "assertion"
    /\ run_logouts >= 1
    /\ run_logouts <= run_logins

C11_LogoutAtRootAssertsAndKeepsRoot ==
    /\ [](Len(login_stack) >= 1)
    /\ [][(Sess_Logout /\ Len(login_stack) = 1) =>
             (/\ sess_outcome' = "assertion"
              /\ login_stack' = login_stack
              /\ default_expect' = default_expect)]_vars

C11_Witness ==
    /\ sess_outcome = "assertion"
    /\ sess_last.op = "logout"
    /\ Len(login_stack) = 1
    /\ Top(login_stack).prompt = RootPrompt

\* C12: a login that does not reach its new prompt, called with
\* fail_on_fail false, returns False, is not fatal, and leaves the login
\* stack and the default expect exactly as they were, so that a further
\* login can be made.
C12_FailedLoginLeavesSessionAsItWas ==
    [][(/\ Sess_Login
        /\ sess_last'.op = "login"
        /\ ~sess_last'.reached
        /\ ~sess_last'.fail_on_fail) =>
          (/\ sess_last'.ret = "False"
           /\ sess_outcome' = "running"
           /\ login_stack' = login_stack
           /\ default_expect' = default_expect)]_vars

C12_Witness ==
    /\ sess_last.op = "login" /\ sess_last.ret = "False"
    /\ ~sess_last.reached /\ ~sess_last.fail_on_fail
    /\ sess_outcome = "running"
    /\ Len(login_stack) = 2
    /\ default_expect = Top(login_stack).prompt


(***************************************************************************)
(* The send/expect engine.                                                 *)
(***************************************************************************)
Commands == {"cmd_a", "cmd_b"}
\* exit_values=None, the default of send(): no accepted set given.
NoExitValues == {}
ExitValueSets == {NoExitValues, {0}, {0, 1}}

(***************************************************************************)
(* ShutIt.send: the ShutItSendSpec it hands to the session's send.         *)
(***************************************************************************)
ShutIt_send_RetryDropped(cmd, expect, check_exit, exit_values, escape, retry) ==
    [send |-> cmd, expect |-> expect, check_exit |-> check_exit,
     exit_values |-> exit_values, escape |-> escape, retry |-> DefaultRetry]

ShutIt_send(cmd, expect, check_exit, exit_values, escape, retry) ==
    [send |-> cmd, expect |-> expect, check_exit |-> check_exit,
     exit_values |-> exit_values, escape |-> escape, retry |-> retry]

(***************************************************************************)
(* ShutIt.send_and_return_status: the ShutItSendSpec it hands to the       *)
(* session's send (lines 483-497), check_exit as the caller passed it.     *)
(***************************************************************************)
ShutIt_send_and_return_status(cmd, expect, check_exit, exit_values, escape, retry) ==
    [send |-> cmd, expect |-> expect, check_exit |-> check_exit,
     exit_values |-> exit_values, escape |-> escape, retry |-> retry]

\* The session's check_last_exit_values with retbool=True: whether the last
\* exit status is in the accepted set, answered as a boolean.
check_last_exit_values(status, exit_values) ==
    status \in (IF exit_values = NoExitValues THEN {0} ELSE exit_values)

(***************************************************************************)
(* The text written to the child for a SendSpec: shell-escaped when escape *)
(* is set.                                                                 *)
(***************************************************************************)
Wire(spec) ==
    IF spec.escape THEN "escaped:" \o spec.send ELSE spec.send

(***************************************************************************)
(* The accepted exit values of a SendSpec: success only by default.        *)
(***************************************************************************)
Accepted(spec) ==
    IF spec.exit_values = NoExitValues THEN {0} ELSE spec.exit_values

ExitStatusError(spec, actual) ==
    [kind |-> "ExitStatusError", command |-> spec.send,
     expected |-> Accepted(spec), actual |-> actual]

InitSend ==
    /\ OthersIdle
    /\ SendIdle
    /\ EAIIdle /\ interactive = FALSE
    /\ SessionIdle /\ SessionHistIdle /\ MultiIdle /\ PhasesIdle

(***************************************************************************)
(* send(): the SendSpec is built and the command written to the child.     *)
(***************************************************************************)
Send_Call ==
    /\ snd_pc = "idle"
    /\ \E cmd \in Commands, check_exit \in BOOLEAN, exit_values \in ExitValueSets,
          escape \in BOOLEAN, retry \in 0 .. MaxRetry :
          /\ snd_args' = [op |-> "send", send |-> cmd, check_exit |-> check_exit,
                          exit_values |-> exit_values, escape |-> escape,
                          retry |-> retry]
          /\ sendspec' = ShutIt_send(cmd, None, check_exit, exit_values, escape, retry)
          /\ transmitted' = <<Wire(ShutIt_send(cmd, None, check_exit, exit_values, escape, retry))>>
    /\ snd_pc' = "waiting"
    /\ UNCHANGED <<statuses, snd_outcome>>
    /\ UNCHANGED notSend

(***************************************************************************)
(* send_and_return_status(): the same SendSpec is built and sent; what the *)
(* call returns is decided when the send has returned.                     *)
(***************************************************************************)
SendStatus_Call ==
    /\ snd_pc = "idle"
    /\ \E cmd \in Commands, check_exit \in BOOLEAN, exit_values \in ExitValueSets,
          escape \in BOOLEAN, retry \in 0 .. MaxRetry :
          /\ snd_args' = [op |-> "send_and_return_status", send |-> cmd,
                          check_exit |-> check_exit, exit_values |-> exit_values,
                          escape |-> escape, retry |-> retry]
          /\ sendspec' = ShutIt_send_and_return_status(cmd, None, check_exit,
                                                       exit_values, escape, retry)
          /\ transmitted' = <<Wire(ShutIt_send_and_return_status(cmd, None,
                                  check_exit, exit_values, escape, retry))>>
    /\ snd_pc' = "waiting"
    /\ UNCHANGED <<statuses, snd_outcome>>
    /\ UNCHANGED notSend

(***************************************************************************)
(* The sentinel is observed: the command completed with an exit status.    *)
(* With check_exit, a status outside the accepted set resends the          *)
(* identical command, up to retry times, then raises ExitStatusError.      *)
(***************************************************************************)
Send_Complete ==
    /\ snd_pc = "waiting"
    /\ \E status \in 0 .. 1 :
          /\ statuses' = Append(statuses, status)
          /\ IF sendspec.check_exit /\ status \notin Accepted(sendspec)
             THEN IF Len(transmitted) - 1 < sendspec.retry
                  THEN /\ transmitted' = Append(transmitted, Wire(sendspec))
                       /\ UNCHANGED <<snd_pc, snd_outcome>>
                  ELSE /\ snd_outcome' = ExitStatusError(sendspec, status)
                       /\ snd_pc' = "done"
                       /\ UNCHANGED transmitted
             ELSE /\ snd_outcome' =
                        IF snd_args.op = "send_and_return_status"
                        THEN [kind |-> "return_status",
                              value |-> check_last_exit_values(
                                           status, snd_args.exit_values)]
                        ELSE [kind |-> "return", value |-> 0]
                  /\ snd_pc' = "done"
                  /\ UNCHANGED transmitted
    /\ UNCHANGED <<sendspec, snd_args>>
    /\ UNCHANGED notSend

(***************************************************************************)
(* EOF on the process: fatal whatever retry budget is left.                *)
(***************************************************************************)
Send_EOF ==
    /\ snd_pc = "waiting"
    /\ snd_outcome' = [kind |-> "ProtocolError", cause |-> "EOF"]
    /\ snd_pc' = "done"
    /\ UNCHANGED <<sendspec, snd_args, transmitted, statuses>>
    /\ UNCHANGED notSend

NextSend ==
    \/ Send_Call
    \/ SendStatus_Call
    \/ Send_Complete
    \/ Send_EOF

SpecSend == InitSend /\ [][NextSend]_vars

(***************************************************************************)
(* Properties of send (checked under SpecSend).                            *)
(***************************************************************************)
\* The call asked for check-exit with accepted set {0} and every attempt of
\* the command was answered by exit status 1.
AlwaysExitsOne ==
    /\ snd_pc = "done"
    /\ snd_args.op = "send"
    /\ snd_args.check_exit
    /\ snd_args.exit_values \in {NoExitValues, {0}}
    /\ Len(statuses) = Len(transmitted)
    /\ \A i \in 1 .. Len(statuses) : statuses[i] = 1

\* C8: a send with check-exit and accepted set {0}, against a command that
\* always exits 1, resends the identical command text exactly retry times
\* and then raises ExitStatusError.
C8_RetriesExactlyThenExitStatusError ==
    AlwaysExitsOne =>
        /\ Len(transmitted) = 1 + snd_args.retry
        /\ \A i \in 1 .. Len(transmitted) :
              transmitted[i] = (IF snd_args.escape
                                THEN "escaped:" \o snd_args.send
                                ELSE snd_args.send)
        /\ snd_outcome.kind = "ExitStatusError"
        /\ snd_outcome.command = snd_args.send
        /\ snd_outcome.actual = 1

C8_Witness ==
    /\ AlwaysExitsOne
    /\ snd_args.retry = 2
    /\ Len(transmitted) = 3
    /\ snd_outcome.kind = "ExitStatusError"

\* C19: when send_and_return_status has ended without EOF, it has returned
\* True if the command's last exit status is in the accepted set and False,
\* with no fatal failure, if it is outside.
C19_ReturnsStatusAsBoolean ==
    (/\ snd_pc = "done"
     /\ snd_args.op = "send_and_return_status"
     /\ Len(statuses) = Len(transmitted)) =>
        /\ snd_outcome.kind = "return_status"
        /\ snd_outcome.value =
              check_last_exit_values(statuses[Len(statuses)],
                                     snd_args.exit_values)

(***************************************************************************)
(* The multisend dialog driver.                                            *)
(***************************************************************************)
InterimPatterns == <<"Username:", "Password:">>
FinalPatterns == <<"$ ", "# ">>
Responses == {"bob", "secret"}

Range(seq) == {seq[i] : i \in 1 .. Len(seq)}

SendDicts ==
    UNION {[K -> Responses] : K \in SUBSET Range(InterimPatterns)}

ExpectArgs == {None, <<"$ ">>, <<"$ ", "# ">>}

(***************************************************************************)
(* ShutIt.multisend: the ShutItSendSpec it hands to the session's          *)
(* multisend; expect falls back to the session's default expect.           *)
(***************************************************************************)
ShutIt_multisend_DictDropped(cmd, send_dict, expect, dflt) ==
    [send |-> cmd, send_dict |-> <<>>,
     expect |-> IF expect = None THEN <<dflt>> ELSE expect]

ShutIt_multisend(cmd, send_dict, expect, dflt) ==
    [send |-> cmd, send_dict |-> send_dict,
     expect |-> IF expect = None THEN <<dflt>> ELSE expect]

(***************************************************************************)
(* The patterns multisend waits for: every interim pattern, then the       *)
(* final patterns.  IndexIn is the 0-based index of a pattern in a list,   *)
(* Len(list) when it is not in it (the wait times out).                    *)
(***************************************************************************)
InterimList(spec) ==
    SelectSeq(InterimPatterns, LAMBDA k : k \in DOMAIN spec.send_dict)

WaitList(spec) == InterimList(spec) \o spec.expect

IndexIn(list, p) ==
    IF p \in Range(list)
    THEN (CHOOSE i \in 1 .. Len(list) :
             list[i] = p /\ \A j \in 1 .. (i - 1) : list[j] # p) - 1
    ELSE Len(list)

InitMulti ==
    /\ OthersIdle
    /\ MultiIdle
    /\ EAIIdle /\ interactive = FALSE
    /\ SessionHistIdle /\ SendIdle /\ PhasesIdle
    /\ login_stack = <<[prompt |-> "$ ", command |-> "bash"]>>
    /\ default_expect = "$ "

(***************************************************************************)
(* multisend(): the SendSpec is built and the command written.             *)
(***************************************************************************)
MS_Call ==
    /\ ms_pc = "idle"
    /\ \E cmd \in Commands, d \in SendDicts, e \in ExpectArgs :
          /\ ms_args' = [send |-> cmd, send_dict |-> d, expect |-> e]
          /\ ms_spec' = ShutIt_multisend(cmd, d, e, default_expect)
          /\ ms_sent' = <<cmd>>
    /\ ms_pc' = "waiting"
    /\ UNCHANGED <<emitted, ms_outcome>>
    /\ UNCHANGED notMulti

(***************************************************************************)
(* The dialog shows its next prompt (or text that is no prompt), once the  *)
(* previous one has been answered.                                         *)
(***************************************************************************)
MS_Emit ==
    /\ ms_pc = "waiting"
    /\ Len(emitted) < Len(ms_sent)
    /\ Len(emitted) <= MaxDialog
    /\ \E p \in Range(InterimPatterns) \cup Range(FinalPatterns) \cup {"other output"} :
          emitted' = Append(emitted, p)
    /\ UNCHANGED <<ms_pc, ms_spec, ms_args, ms_sent, ms_outcome>>
    /\ UNCHANGED notMulti

(***************************************************************************)
(* One wait of multisend on what the dialog showed: an interim pattern is  *)
(* answered with its mapped response, a final pattern ends the call with   *)
(* its index, anything else runs into the timeout and fails.               *)
(***************************************************************************)
MS_Wait ==
    /\ ms_pc = "waiting"
    /\ Len(emitted) = Len(ms_sent)
    /\ LET p == emitted[Len(emitted)]
           i == IndexIn(WaitList(ms_spec), p)
       IN  IF i < Len(InterimList(ms_spec))
           THEN /\ ms_sent' = Append(ms_sent, ms_spec.send_dict[p])
                /\ UNCHANGED <<ms_pc, ms_outcome>>
           ELSE IF i < Len(WaitList(ms_spec))
                THEN /\ ms_outcome' = Returned(i)
                     /\ ms_pc' = "done"
                     /\ UNCHANGED ms_sent
                ELSE /\ ms_outcome' = fail("multisend timed out", FALSE)
                     /\ ms_pc' = "done"
                     /\ UNCHANGED ms_sent
    /\ UNCHANGED <<ms_spec, ms_args, emitted>>
    /\ UNCHANGED notMulti

NextMulti ==
    \/ MS_Call
    \/ MS_Emit
    \/ MS_Wait

SpecMulti == InitMulti /\ [][NextMulti]_vars

(***************************************************************************)
(* Properties of multisend (checked under SpecMulti).                      *)
(***************************************************************************)
FinalOf(args) == IF args.expect = None THEN <<default_expect>> ELSE args.expect

\* What the dialog has shown is a sequence of configured interim prompts,
\* followed (when last is set) by a final expect pattern.
ConfiguredDialog(last) ==
    /\ ms_pc # "idle"
    /\ \A i \in 1 .. (Len(emitted) - (IF last THEN 1 ELSE 0)) :
          emitted[i] \in DOMAIN ms_args.send_dict
    /\ last => /\ Len(emitted) >= 1
               /\ emitted[Len(emitted)] \in Range(FinalOf(ms_args))

\* C9: against a dialog that shows configured interim prompts (any order,
\* repeats allowed) and then the final expect pattern, multisend sends the
\* response mapped to each interim prompt, in the order the prompts came,
\* sends nothing after the final pattern and returns the final pattern's
\* index.
C9_MultisendAnswersEachPromptInOrder ==
    /\ (ConfiguredDialog(FALSE) /\ ms_pc = "waiting") =>
          /\ Len(ms_sent) \in {Len(emitted), Len(emitted) + 1}
          /\ \A i \in 1 .. (Len(ms_sent) - 1) :
                ms_sent[i + 1] = ms_args.send_dict[emitted[i]]
    /\ (ConfiguredDialog(TRUE) /\ Len(ms_sent) = Len(emitted)) =>
          /\ ms_pc = "waiting" \/ ms_outcome.kind = "return"
          /\ ms_pc = "done" =>
                /\ ms_sent[1] = ms_args.send
                /\ \A i \in 1 .. (Len(emitted) - 1) :
                      ms_sent[i + 1] = ms_args.send_dict[emitted[i]]
                /\ ms_outcome.value =
                      Cardinality(DOMAIN ms_args.send_dict)
                      + IndexIn(FinalOf(ms_args), emitted[Len(emitted)])

C9_Witness ==
    /\ ms_pc = "done"
    /\ ConfiguredDialog(TRUE)
    /\ emitted = <<"Password:", "Username:", "Password:", "$ ">>
    /\ ms_sent = <<ms_args.send, "secret", "bob", "secret">>
    /\ ms_outcome = Returned(2)

(***************************************************************************)
(* The run orchestrator: check_ready, do_remove, do_build, do_test and     *)
(* do_finalize over the modules in run order.                              *)
(***************************************************************************)
DeliveryMethods == {"bash", "docker"}
PhaseCommand == "bash --noprofile --norc"

\* module_ids(shutit): the module ids in run order, reversed with rev=True.
module_ids(rev) ==
    [i \in 1 .. NModules |-> IF rev THEN NModules + 1 - i ELSE i]

module_id(m) == "module_" \o ToString(m)

\* list.remove(x): the first occurrence of x leaves the list.
ListRemove(list, x) ==
    LET first == CHOOSE i \in 1 .. Len(list) :
                    list[i] = x /\ \A j \in 1 .. (i - 1) : list[j] # x
    IN  [i \in 1 .. (Len(list) - 1) |-> IF i < first THEN list[i] ELSE list[i + 1]]

\* The modules of a set as a list in run order.
InRunOrder(S) == SelectSeq(module_ids(FALSE), LAMBDA m : m \in S)

\* shutit_util.is_installed answered from the installed cache.
is_installed(m) == m \in Range(modules_installed)

(***************************************************************************)
(* The bracket every phase puts around a module's operation: login with    *)
(* the module id as prompt prefix, the operation, logout.  A login that    *)
(* does not reach its prompt and an operation that fails or raises end the *)
(* run where they happen; the logout is reached only past them.            *)
(***************************************************************************)
ModuleBracket_NoLogout(stack, expect, m, reached, op_ok) ==
    LET spec == ShutIt_login(PhaseCommand, module_id(m), TRUE) IN
    IF ~reached
    THEN [stack |-> stack, expect |-> expect, logins |-> 0, logouts |-> 0,
          fatal |-> TRUE]
    ELSE [stack |-> LoginStack(stack, spec), expect |-> LoginExpect(stack, spec),
          logins |-> 1, logouts |-> 0, fatal |-> ~op_ok]

ModuleBracket(stack, expect, m, reached, op_ok) ==
    LET spec == ShutIt_login(PhaseCommand, module_id(m), TRUE) IN
    IF ~reached
    THEN [stack |-> stack, expect |-> expect, logins |-> 0, logouts |-> 0,
          fatal |-> TRUE]
    ELSE IF ~op_ok
         THEN [stack |-> LoginStack(stack, spec),
               expect |-> LoginExpect(stack, spec),
               logins |-> 1, logouts |-> 0, fatal |-> TRUE]
         ELSE [stack |-> LogoutStack(LoginStack(stack, spec)),
               expect |-> LogoutExpect(LoginStack(stack, spec)),
               logins |-> 1, logouts |-> 1, fatal |-> FALSE]

\* No login is issued for the module: the session is left alone.
NoBracket(stack, expect) ==
    [stack |-> stack, expect |-> expect, logins |-> 0, logouts |-> 0,
     fatal |-> FALSE]

PhaseOrder ==
    <<"check_ready", "do_remove", "do_build", "do_test", "do_finalize">>

NextPhase(p) ==
    IF p = "do_finalize" THEN "finalize_target"
    ELSE PhaseOrder[(CHOOSE i \in 1 .. Len(PhaseOrder) : PhaseOrder[i] = p) + 1]

InitPhases ==
    /\ OthersIdle
    /\ EAIIdle /\ interactive = FALSE
    /\ SessionIdle /\ SessionHistIdle /\ SendIdle /\ MultiIdle
    /\ phase = [fn |-> "check_ready", in_loop |-> FALSE]
    /\ mod_idx = 1
    /\ cfg_build \in [Modules -> BOOLEAN]
    /\ cfg_remove \in [Modules -> BOOLEAN]
    /\ delivery \in DeliveryMethods
    /\ deps_only \in BOOLEAN
    /\ dotest \in BOOLEAN
    /\ modules_ready = <<>>
    /\ \E S \in SUBSET Modules :
          /\ modules_installed = InRunOrder(S)
          /\ modules_not_installed = InRunOrder(Modules \ S)
    /\ ph_logins = 0
    /\ ph_logouts = 0
    /\ ph_start_stack = login_stack
    /\ run_outcome = "running"
    /\ ph_failure = NoFailure
    /\ ph_ops = <<>>
    /\ ph_not_ready = {}

\* The effect of one loop iteration on the session and on the run: the
\* bracket's result b, and the move to the next module or the next phase.
Iterate(b) ==
    /\ login_stack' = b.stack
    /\ default_expect' = b.expect
    /\ ph_logins' = ph_logins + b.logins
    /\ ph_logouts' = ph_logouts + b.logouts
    /\ IF b.fatal
       THEN /\ run_outcome' = "fatal"
            /\ UNCHANGED <<phase, mod_idx>>
       ELSE IF mod_idx < NModules
            THEN /\ mod_idx' = mod_idx + 1
                 /\ UNCHANGED <<phase, run_outcome>>
            ELSE /\ phase' = [fn |-> NextPhase(phase.fn), in_loop |-> FALSE]
                 /\ mod_idx' = 1
                 /\ UNCHANGED run_outcome

\* The failure that ends the run, recorded when cond holds.
Failure(cond, f) ==
    ph_failure' = IF cond THEN f ELSE ph_failure

\* The session's login did not reach its prompt (fail_on_fail).
LoginFailed ==
    [cause |-> "login", op |-> "login", handle |-> None, kind |-> "exit"]

\* A module operation raised an exception.
OperationRaised(op) ==
    [cause |-> "raised", op |-> op, handle |-> None, kind |-> "exception"]

\* Lines 328, 349, 412, 431 and 450: a module operation returned False and
\* shutit.fail is called with the pexpect_child of the target session.
OperationFailed(op) ==
    [cause |-> "returned_false", op |-> op, handle |-> "target_child",
     kind |-> fail(op, FALSE).kind]

\* Lines 54 and 69: a stop or start of stop_all / start_all returned False
\* and the argument of shutit.fail reads the session's attribute
\* shutit_pexpect_child; where the session has no attribute of that name
\* (its child is pexpect_child everywhere else) the read raises
\* AttributeError and fail is not called.
StopStartFailed(op, has_attribute) ==
    IF has_attribute
    THEN [cause |-> "returned_false", op |-> op, handle |-> "target_child",
          kind |-> fail(op, FALSE).kind]
    ELSE [cause |-> "returned_false", op |-> op, handle |-> None,
          kind |-> "AttributeError"]

\* stop_all / start_all have an operation to run: a module is installed.
AnyInstalled == \E m \in Modules : is_installed(m)

\* The run order of a module: module_ids lists the modules by it.
run_order(m) == m

InStopStartRange_Below(r, m) == r = -1 \/ run_order(m) < r

\* Lines 51 and 66: the run-order test of stop_all and start_all.
InStopStartRange(r, m) == r = -1 \/ run_order(m) <= r

StopAllVisits_Forward(r) ==
    SelectSeq(module_ids(FALSE),
              LAMBDA m : InStopStartRange(r, m) /\ is_installed(m))

\* The modules whose stop is invoked by stop_all(run_order=r), in the order
\* of the calls (module_ids(rev=True)), were every stop to return True.
StopAllVisits(r) ==
    SelectSeq(module_ids(TRUE),
              LAMBDA m : InStopStartRange(r, m) /\ is_installed(m))

\* The modules whose start is invoked by start_all(run_order=r).
StartAllVisits(r) ==
    SelectSeq(module_ids(FALSE),
              LAMBDA m : InStopStartRange(r, m) /\ is_installed(m))

\* The operations invoked on the modules to visit when the failing-th of
\* them returns False (0: none does): the loop ends at the failing one.
Invoked(op, visits, failing) ==
    [i \in 1 .. (IF failing = 0 THEN Len(visits) ELSE failing) |->
        [op |-> op, m |-> visits[i]]]

\* The operations of one module's bracket: the login, the operation once
\* the login has reached its prompt, the logout once the operation is over.
BracketOps(m, op, reached, op_ok) ==
    <<[op |-> "login", m |-> m]>>
    \o (IF reached THEN <<[op |-> op, m |-> m]>> ELSE <<>>)
    \o (IF reached /\ op_ok THEN <<[op |-> "logout", m |-> m]>> ELSE <<>>)

(***************************************************************************)
(* A phase function is entered: the module loop starts at the first        *)
(* module.  do_test returns at once when tests are configured off, else    *)
(* it runs stop_all and start_all first; do_finalize runs stop_all first.  *)
(***************************************************************************)
Phase_Enter ==
    /\ run_outcome = "running"
    /\ phase.fn \in Range(PhaseOrder) /\ ~phase.in_loop
    /\ ph_start_stack' = login_stack
    /\ ph_logins' = 0
    /\ ph_logouts' = 0
    /\ mod_idx' = 1
    /\ \E stop_failing \in 0 .. Len(StopAllVisits(-1)),
          start_failing \in 0 .. Len(StartAllVisits(-1)),
          has_attribute \in BOOLEAN :
          LET stops == Invoked("stop", StopAllVisits(-1), stop_failing)
              starts == Invoked("start", StartAllVisits(-1), start_failing)
          IN
          IF phase.fn = "do_test" /\ ~dotest
          THEN /\ phase' = [fn |-> NextPhase(phase.fn), in_loop |-> FALSE]
               /\ ph_ops' = <<>>
               /\ UNCHANGED <<run_outcome, ph_failure>>
          ELSE IF phase.fn \in {"do_test", "do_finalize"} /\ stop_failing > 0
          THEN /\ run_outcome' = "fatal"
               /\ ph_failure' = StopStartFailed("stop", has_attribute)
               /\ ph_ops' = stops
               /\ UNCHANGED phase
          ELSE IF phase.fn = "do_test" /\ start_failing > 0
          THEN /\ run_outcome' = "fatal"
               /\ ph_failure' = StopStartFailed("start", has_attribute)
               /\ ph_ops' = stops \o starts
               /\ UNCHANGED phase
          ELSE /\ phase' = [phase EXCEPT !.in_loop = TRUE]
               /\ ph_ops' = IF phase.fn = "do_test" THEN stops \o starts
                             ELSE IF phase.fn = "do_finalize" THEN stops
                             ELSE <<>>
               /\ UNCHANGED <<run_outcome, ph_failure>>
    /\ UNCHANGED <<login_stack, default_expect, cfg_build, cfg_remove, delivery,
                   deps_only, dotest, modules_ready, modules_installed,
                   modules_not_installed, ph_not_ready>>
    /\ UNCHANGED notPhases

(***************************************************************************)
(* check_ready(throw_error=False), one module: a module configured to be   *)
(* built, not known ready and not installed is asked whether it is ready   *)
(* inside a login/logout bracket.                                          *)
(***************************************************************************)
Phase_check_ready ==
    /\ run_outcome = "running"
    /\ phase = [fn |-> "check_ready", in_loop |-> TRUE]
    /\ LET m == module_ids(FALSE)[mod_idx] IN
       IF cfg_build[m] /\ m \notin Range(modules_ready) /\ ~is_installed(m)
       THEN \E reached \in BOOLEAN, ready \in {"True", "False", "raise"} :
               /\ Iterate(ModuleBracket(login_stack, default_expect, m,
                                        reached, ready # "raise"))
               /\ Failure(~reached \/ ready = "raise",
                          IF ~reached THEN LoginFailed
                          ELSE OperationRaised("check_ready"))
               /\ modules_ready' = IF reached /\ ready = "True"
                                   THEN Append(modules_ready, m)
                                   ELSE modules_ready
               /\ ph_not_ready' = IF reached /\ ready = "False"
                                  THEN ph_not_ready \cup {m}
                                  ELSE ph_not_ready
               /\ ph_ops' = ph_ops \o BracketOps(m, "check_ready", reached,
                                                 ready # "raise")
       ELSE /\ Iterate(NoBracket(login_stack, default_expect))
            /\ UNCHANGED <<modules_ready, ph_failure, ph_ops, ph_not_ready>>
    /\ UNCHANGED <<cfg_build, cfg_remove, delivery, deps_only, dotest,
                   modules_installed, modules_not_installed, ph_start_stack>>
    /\ UNCHANGED notPhases

(***************************************************************************)
(* do_remove, one module: a module configured for removal is removed       *)
(* inside a bracket; with a docker delivery the caches record it.          *)
(***************************************************************************)
Phase_do_remove ==
    /\ run_outcome = "running"
    /\ phase = [fn |-> "do_remove", in_loop |-> TRUE]
    /\ LET m == module_ids(FALSE)[mod_idx] IN
       IF cfg_remove[m]
       THEN \E reached \in BOOLEAN, removed \in BOOLEAN :
               /\ Iterate(ModuleBracket(login_stack, default_expect, m,
                                        reached, removed))
               /\ Failure(~reached \/ ~removed,
                          IF ~reached THEN LoginFailed
                          ELSE OperationFailed("remove"))
               /\ ph_ops' = ph_ops \o BracketOps(m, "remove", reached, removed)
               /\ IF reached /\ removed /\ delivery = "docker"
                  THEN /\ modules_installed' =
                             IF m \in Range(modules_installed)
                             THEN ListRemove(modules_installed, m)
                             ELSE modules_installed
                       /\ modules_not_installed' = Append(modules_not_installed, m)
                  ELSE UNCHANGED <<modules_installed, modules_not_installed>>
       ELSE /\ Iterate(NoBracket(login_stack, default_expect))
            /\ UNCHANGED <<modules_installed, modules_not_installed,
                           ph_failure, ph_ops>>
    /\ UNCHANGED <<cfg_build, cfg_remove, delivery, deps_only, dotest,
                   modules_ready, ph_start_stack, ph_not_ready>>
    /\ UNCHANGED notPhases

\* module_id_list_build_only[-1]: the last module configured to be built.
LastBuildOnly ==
    CHOOSE m \in Modules :
        cfg_build[m] /\ \A k \in Modules : cfg_build[k] => k <= m

\* build_module: a built module enters the installed cache and leaves the
\* not-installed cache.
BuiltInstalled(m) == Append(modules_installed, m)

BuiltNotInstalled(m) ==
    IF m \in Range(modules_not_installed)
    THEN ListRemove(modules_not_installed, m)
    ELSE modules_not_installed

(***************************************************************************)
(* do_build, one module: a module configured to be built and not installed *)
(* is built inside a bracket (unless it is the last one of a deps-only     *)
(* run); an installed module is then started.  Subscripting the filter     *)
(* result works or raises TypeError, as the interpreter has it.            *)
(***************************************************************************)
Phase_do_build ==
    /\ run_outcome = "running"
    /\ phase = [fn |-> "do_build", in_loop |-> TRUE]
    /\ LET m == module_ids(FALSE)[mod_idx] IN
       \E delivery_ok \in BOOLEAN, subscriptable \in BOOLEAN,
          reached \in BOOLEAN, built \in BOOLEAN, started \in BOOLEAN :
          IF cfg_build[m] /\ ~delivery_ok
          THEN /\ Iterate([NoBracket(login_stack, default_expect)
                              EXCEPT !.fatal = TRUE])
               /\ ph_failure' = [cause |-> "delivery", op |-> "none",
                                 handle |-> None, kind |-> fail("", FALSE).kind]
               /\ UNCHANGED <<modules_installed, modules_not_installed, ph_ops>>
          ELSE IF cfg_build[m] /\ ~is_installed(m) /\ deps_only /\ ~subscriptable
          THEN /\ Iterate([NoBracket(login_stack, default_expect)
                              EXCEPT !.fatal = TRUE])
               /\ ph_failure' = [cause |-> "TypeError", op |-> "none",
                                 handle |-> None, kind |-> "exception"]
               /\ UNCHANGED <<modules_installed, modules_not_installed, ph_ops>>
          ELSE IF cfg_build[m] /\ ~is_installed(m)
                  /\ ~(deps_only /\ m = LastBuildOnly)
          THEN LET b == ModuleBracket(login_stack, default_expect, m,
                                      reached, built)
               IN  /\ Iterate([b EXCEPT !.fatal = b.fatal \/ ~started])
                   /\ Failure(b.fatal \/ ~started,
                              IF ~reached THEN LoginFailed
                              ELSE IF ~built THEN OperationFailed("build")
                              ELSE OperationFailed("start"))
                   /\ ph_ops' = ph_ops \o BracketOps(m, "build", reached, built)
                                 \o (IF reached /\ built
                                     THEN <<[op |-> "start", m |-> m]>>
                                     ELSE <<>>)
                   /\ IF reached /\ built
                      THEN /\ modules_installed' = BuiltInstalled(m)
                           /\ modules_not_installed' = BuiltNotInstalled(m)
                      ELSE UNCHANGED <<modules_installed, modules_not_installed>>
          ELSE /\ Iterate([NoBracket(login_stack, default_expect)
                              EXCEPT !.fatal = is_installed(m) /\ ~started])
               /\ Failure(is_installed(m) /\ ~started, OperationFailed("start"))
               /\ ph_ops' = ph_ops \o (IF is_installed(m)
                                       THEN <<[op |-> "start", m |-> m]>>
                                       ELSE <<>>)
               /\ UNCHANGED <<modules_installed, modules_not_installed>>
    /\ UNCHANGED <<cfg_build, cfg_remove, delivery, deps_only, dotest,
                   modules_ready, ph_start_stack, ph_not_ready>>
    /\ UNCHANGED notPhases

(***************************************************************************)
(* do_test, one module in reverse order: an installed module is tested     *)
(* inside a bracket.                                                       *)
(***************************************************************************)
Phase_do_test ==
    /\ run_outcome = "running"
    /\ phase = [fn |-> "do_test", in_loop |-> TRUE]
    /\ LET m == module_ids(TRUE)[mod_idx] IN
       IF is_installed(m)
       THEN \E reached \in BOOLEAN, passed \in BOOLEAN :
               /\ Iterate(ModuleBracket(login_stack, default_expect, m,
                                        reached, passed))
               /\ Failure(~reached \/ ~passed,
                          IF ~reached THEN LoginFailed
                          ELSE OperationFailed("test"))
               /\ ph_ops' = ph_ops \o BracketOps(m, "test", reached, passed)
       ELSE /\ Iterate(NoBracket(login_stack, default_expect))
            /\ UNCHANGED <<ph_failure, ph_ops>>
    /\ UNCHANGED <<cfg_build, cfg_remove, delivery, deps_only, dotest,
                   modules_ready, modules_installed, modules_not_installed,
                   ph_start_stack, ph_not_ready>>
    /\ UNCHANGED notPhases

(***************************************************************************)
(* do_finalize, one module in reverse order: an installed module is        *)
(* finalized inside a bracket.                                             *)
(***************************************************************************)
Phase_do_finalize ==
    /\ run_outcome = "running"
    /\ phase = [fn |-> "do_finalize", in_loop |-> TRUE]
    /\ LET m == module_ids(TRUE)[mod_idx] IN
       IF is_installed(m)
       THEN \E reached \in BOOLEAN, finalized \in BOOLEAN :
               /\ Iterate(ModuleBracket(login_stack, default_expect, m,
                                        reached, finalized))
               /\ Failure(~reached \/ ~finalized,
                          IF ~reached THEN LoginFailed
                          ELSE OperationFailed("finalize"))
               /\ ph_ops' = ph_ops \o BracketOps(m, "finalize", reached, finalized)
       ELSE /\ Iterate(NoBracket(login_stack, default_expect))
            /\ UNCHANGED <<ph_failure, ph_ops>>
    /\ UNCHANGED <<cfg_build, cfg_remove, delivery, deps_only, dotest,
                   modules_ready, modules_installed, modules_not_installed,
                   ph_start_stack, ph_not_ready>>
    /\ UNCHANGED notPhases

(***************************************************************************)
(* The phases are over: the build is marked completed.                     *)
(***************************************************************************)
Run_Completed ==
    /\ run_outcome = "running"
    /\ phase.fn = "finalize_target"
    /\ run_outcome' = "completed"
    /\ UNCHANGED <<phase, mod_idx, login_stack, default_expect, cfg_build,
                   cfg_remove, delivery, deps_only, dotest, modules_ready,
                   modules_installed, modules_not_installed, ph_logins,
                   ph_logouts, ph_start_stack, ph_failure, ph_ops,
                   ph_not_ready>>
    /\ UNCHANGED notPhases

NextPhases ==
    \/ Phase_Enter
    \/ Phase_check_ready
    \/ Phase_do_remove
    \/ Phase_do_build
    \/ Phase_do_test
    \/ Phase_do_finalize
    \/ Run_Completed

SpecPhases == InitPhases /\ [][NextPhases]_vars

(***************************************************************************)
(* Properties of the orchestrator (checked under SpecPhases).              *)
(***************************************************************************)
\* C7: in every phase, between modules and when the phase has ended without
\* a fatal failure, every login issued in the phase has been followed by
\* its logout and the login stack is what it was when the phase began.
C7_PhaseBracketsBalanced ==
    run_outcome # "fatal" =>
        /\ ph_logins = ph_logouts
        /\ login_stack = ph_start_stack
        /\ Len(login_stack) = Len(ph_start_stack)

C7_Witness ==
    /\ run_outcome = "completed"
    /\ phase.fn = "finalize_target"
    /\ ph_logins = NModules
    /\ ph_logouts = NModules
    /\ Len(login_stack) = Len(ph_start_stack)

\* The run ended because a module operation (stop, start, remove, build,
\* test or finalize) returned False.
OperationReturnedFalse ==
    /\ ph_failure.cause = "returned_false"
    /\ ph_failure.op \in {"stop", "start", "remove", "build", "test", "finalize"}

\* C20: whenever a module operation returns False the run ends in a fatal
\* failure raised by shutit.fail that carries the target session's handle,
\* and nothing of the run is executed after it.
C20_OperationFailureFatalWithHandle ==
    /\ [](OperationReturnedFalse =>
            /\ run_outcome = "fatal"
            /\ ph_failure.kind = "exit"
            /\ ph_failure.handle = "target_child")
    /\ [][run_outcome = "fatal" => UNCHANGED <<phVars, sessVars>>]_vars

\* A module's build method has been invoked in the phase in progress.
BuildInvoked == \E i \in 1 .. Len(ph_ops) : ph_ops[i].op = "build"

\* C25: once a module configured to be built and not installed has
\* answered False to check_ready, the run fails before the build phase: no
\* module's build method is invoked in that run.
C25_NotReadyMeansNoBuild ==
    ph_not_ready # {} => ~BuildInvoked

\* The module that the do_build iteration in progress considers.
Considered == module_ids(FALSE)[mod_idx]

\* The operations that the step in progress invokes.
StepOps == SubSeq(ph_ops', Len(ph_ops) + 1, Len(ph_ops'))

StepInvokes(op, m) ==
    \E i \in 1 .. Len(StepOps) : StepOps[i] = [op |-> op, m |-> m]

\* The module considered is configured to be built, not installed and not
\* the final module of a deps-only run.
BuildDue(m) ==
    /\ cfg_build[m]
    /\ ~is_installed(m)
    /\ ~(deps_only /\ m = LastBuildOnly)

\* The iteration failed on the delivery method / on the login.
DeliveryRefused == ph_failure'.cause = "delivery"
LoginRefused == ph_failure'.cause = "login"

\* C30: in every iteration of do_build, the module's build is invoked
\* exactly when the module is configured to be built, its delivery method
\* is allowed, it is not installed and it is not the deps-only final module
\* (the login of its bracket having reached the prompt); an installed module
\* is never rebuilt; a refused delivery method is a fatal failure of a
\* build-configured module with no login and no build invoked for it.
C30_BuildExactlyWhenDue ==
    [][(run_outcome = "running" /\ phase = [fn |-> "do_build", in_loop |-> TRUE])
        => /\ StepInvokes("build", Considered)
                <=> (BuildDue(Considered) /\ ~DeliveryRefused /\ ~LoginRefused)
           /\ is_installed(Considered) => ~StepInvokes("build", Considered)
           /\ DeliveryRefused =>
                /\ cfg_build[Considered]
                /\ run_outcome' = "fatal"
                /\ StepOps = <<>>]_vars

\* The step in progress invokes build and, after it, start on module m.
StepBuildsThenStarts(m) ==
    \E i, j \in 1 .. Len(StepOps) :
        /\ i < j
        /\ StepOps[i] = [op |-> "build", m |-> m]
        /\ StepOps[j] = [op |-> "start", m |-> m]

\* The build method of the module considered returned False.
BuildRefused == ph_failure'.op = "build"

\* C31: with deps_only set, an iteration of do_build over a module that is
\* configured to be built and not installed invokes neither build nor start
\* when the module has the highest run order of the build-configured
\* modules, and builds and then starts every other such module (its
\* delivery method being allowed, its login having reached the prompt and
\* its build having returned True).
C31_DepsOnlySkipsFinalModule ==
    [][(/\ run_outcome = "running"
        /\ phase = [fn |-> "do_build", in_loop |-> TRUE]
        /\ deps_only
        /\ cfg_build[Considered]
        /\ ~is_installed(Considered))
        => IF Considered = LastBuildOnly
           THEN /\ ~StepInvokes("build", Considered)
                /\ ~StepInvokes("start", Considered)
           ELSE (~DeliveryRefused /\ ~LoginRefused /\ ~BuildRefused)
                    => StepBuildsThenStarts(Considered)]_vars

\* The step in progress is an iteration of do_remove in which the remove
\* method of the module considered was invoked and returned True.
StepRemoves ==
    /\ run_outcome = "running"
    /\ phase = [fn |-> "do_remove", in_loop |-> TRUE]
    /\ StepInvokes("remove", Considered)
    /\ ph_failure'.op # "remove"

\* C32: after do_remove has removed a module (its remove method returned
\* True), whatever the delivery method, the module is absent from
\* modules_installed and present in modules_not_installed.
C32_RemovedLeavesInstalledCache ==
    [][StepRemoves =>
          /\ Considered \notin Range(modules_installed')
          /\ Considered \in Range(modules_not_installed')]_vars

\* C33: no module is in both module caches of the environment, the caches
\* having been disjoint at the start and every change to them being a
\* successful removal of do_remove or a successful build of build_module.
C33_CachesStayDisjoint ==
    Range(modules_installed) \cap Range(modules_not_installed) = {}

\* The modules in descending and in ascending run order.
Descending == [i \in 1 .. NModules |-> NModules + 1 - i]
Ascending == [i \in 1 .. NModules |-> i]

\* One operation on each installed module of a list, in the list's order.
OnInstalled(op, list) ==
    LET installed == SelectSeq(list, LAMBDA m : m \in Range(modules_installed))
    IN  [i \in 1 .. Len(installed) |-> [op |-> op, m |-> installed[i]]]

\* The complete brackets (login, test, logout) of the installed modules
\* among the first k in descending run order.
RECURSIVE TestedOps(_)
TestedOps(k) ==
    IF k = 0 THEN <<>>
    ELSE LET m == Descending[k] IN
         TestedOps(k - 1)
         \o (IF m \in Range(modules_installed)
             THEN <<[op |-> "login", m |-> m], [op |-> "test", m |-> m],
                    [op |-> "logout", m |-> m]>>
             ELSE <<>>)

\* C22: with tests enabled do_test stops every installed module (descending
\* run order), then starts every installed module (ascending), then tests
\* every installed module in descending run order, each test between its
\* own login and logout; a test that returns False ends the run at that
\* test, so that nothing runs after it; with tests disabled do_test
\* performs no operation at all.
C22_DoTestStopsStartsThenTests ==
    /\ [](/\ (phase.fn = "do_test" /\ phase.in_loop /\ run_outcome = "running") =>
                /\ dotest
                /\ ph_ops = OnInstalled("stop", Descending)
                            \o OnInstalled("start", Ascending)
                            \o TestedOps(mod_idx - 1)
          /\ (phase = [fn |-> "do_finalize", in_loop |-> FALSE]
              /\ run_outcome = "running") =>
                ph_ops = IF dotest
                         THEN OnInstalled("stop", Descending)
                              \o OnInstalled("start", Ascending)
                              \o TestedOps(NModules)
                         ELSE <<>>
          /\ (phase.fn = "do_test" /\ run_outcome = "fatal") => dotest
          /\ (phase.fn = "do_test" /\ run_outcome = "fatal"
              /\ ph_failure.op = "test") =>
                ph_ops = OnInstalled("stop", Descending)
                         \o OnInstalled("start", Ascending)
                         \o TestedOps(mod_idx - 1)
                         \o <<[op |-> "login", m |-> Descending[mod_idx]],
                              [op |-> "test", m |-> Descending[mod_idx]]>>)
    /\ [][run_outcome = "fatal" => UNCHANGED <<ph_ops, run_outcome>>]_vars

\* do_test has returned after testing every module of a run in which all
\* modules are installed.
C22_Witness ==
    /\ phase = [fn |-> "do_finalize", in_loop |-> FALSE]
    /\ run_outcome = "running"
    /\ dotest
    /\ Range(modules_installed) = Modules
    /\ Len(ph_ops) = 5 * NModules

(***************************************************************************)
(* ShutIt.fail.                                                            *)
(***************************************************************************)
Children == {"target_child", "host_child"}
FailMessages == {"failed on build", "Timed out and could not recover"}

\* Lines 191-193: the session's pause_point is called when a child was
\* passed in, and only then.
FailCallsPausePoint(shutit_pexpect_child) == shutit_pexpect_child # None

\* The session's pause_point hands the terminal to the operator when there
\* is a live terminal, and is ignored otherwise.
SessionPauses(live_terminal) == live_terminal

InitFail ==
    /\ FailIdle /\ RegistryIdle /\ LaterIdle
    /\ EAIIdle /\ interactive \in BOOLEAN
    /\ SessionIdle /\ SessionHistIdle /\ SendIdle /\ MultiIdle /\ PhasesIdle

(***************************************************************************)
(* fail(msg, shutit_pexpect_child, throw_exception) is called; a caller    *)
(* that caught the ShutItFailException of an earlier call may call again.  *)
(***************************************************************************)
Fail_Call ==
    /\ fl_pc = "idle" \/ (fl_pc = "done" /\ fl_outcome.kind = "exception")
    /\ fl_calls < MaxFails
    /\ \E msg \in FailMessages, child \in Children \cup {None},
          throw_exception \in BOOLEAN :
          fl_args' = [msg |-> msg, shutit_pexpect_child |-> child,
                      throw_exception |-> throw_exception]
    /\ fl_calls' = fl_calls + 1
    /\ fl_pause_calls' = 0
    /\ fl_pauses' = 0
    /\ fl_outcome' = NoOutcome
    /\ fl_pc' = "called"
    /\ UNCHANGED notFail

(***************************************************************************)
(* Lines 191-193: the pause point on fail.                                 *)
(***************************************************************************)
Fail_PausePoint ==
    /\ fl_pc = "called"
    /\ IF FailCallsPausePoint(fl_args.shutit_pexpect_child)
       THEN /\ fl_pause_calls' = fl_pause_calls + 1
            /\ fl_pauses' = IF SessionPauses(interactive)
                            THEN fl_pauses + 1 ELSE fl_pauses
       ELSE UNCHANGED <<fl_pause_calls, fl_pauses>>
    /\ fl_pc' = "propagate"
    /\ UNCHANGED <<fl_args, fl_outcome, fl_calls>>
    /\ UNCHANGED notFail

(***************************************************************************)
(* Lines 194-203: ShutItFailException is raised, or handle_exit ends the   *)
(* run with status 1.                                                      *)
(***************************************************************************)
Fail_Propagate ==
    /\ fl_pc = "propagate"
    /\ fl_outcome' = fail(fl_args.msg, fl_args.throw_exception)
    /\ fl_pc' = "done"
    /\ UNCHANGED <<fl_args, fl_pause_calls, fl_pauses, fl_calls>>
    /\ UNCHANGED notFail

NextFail ==
    \/ Fail_Call
    \/ Fail_PausePoint
    \/ Fail_Propagate

SpecFail == InitFail /\ [][NextFail]_vars

(***************************************************************************)
(* Properties of fail (checked under SpecFail).                            *)
(***************************************************************************)
\* C14: when fail has propagated the failure, with a live terminal an
\* interactive pause has taken place before, and with no live terminal no
\* pause has taken place and the run has ended with a non-zero exit status.
C14_FailPausesIffLiveTerminal ==
    fl_pc = "done" =>
        /\ interactive => fl_pauses >= 1
        /\ ~interactive => (/\ fl_pauses = 0
                            /\ fl_outcome.kind = "exit"
                            /\ fl_outcome.value # 0)

(***************************************************************************)
(* The environment registry of the ShutIt object, shared by its sessions.  *)
(***************************************************************************)
EnvIds == {"ORIGIN_ENV", "env_b"}
\* An environment_id argument that is not a str.
NotAString == "<not a str>"

\* add_shutit_pexpect_session_environment: set.add of the object.
AddEnvironment_Replaces(reg, env) == {env}

AddEnvironment(reg, env) == reg \cup {env}

\* get_shutit_pexpect_session_environment, lines 113-116: the first
\* environment of the set with the id, in the set's iteration order (any of
\* them), or None.
GetEnvironment(reg, environment_id) ==
    IF \E e \in reg : e.environment_id = environment_id
    THEN {e \in reg : e.environment_id = environment_id}
    ELSE {NoEnv}

InitRegistry ==
    /\ RegistryIdle /\ FailIdle /\ LaterIdle
    /\ EAIIdle /\ interactive = FALSE
    /\ SessionIdle /\ SessionHistIdle /\ SendIdle /\ MultiIdle /\ PhasesIdle

(***************************************************************************)
(* A session looks an environment id up                                    *)
(* (get_shutit_pexpect_session_environment).                               *)
(***************************************************************************)
Reg_Lookup(p) ==
    /\ rg_outcome = NoOutcome
    /\ rg_pc[p] \in {"idle", "done"}
    /\ \E environment_id \in EnvIds \cup {NotAString} :
          IF environment_id = NotAString
          THEN /\ rg_outcome' = fail("Wrong argument type in get_shutit_pexpect_session_environment", FALSE)
               /\ UNCHANGED <<rg_pc, rg_id, rg_found>>
          ELSE /\ rg_id' = [rg_id EXCEPT ![p] = environment_id]
               /\ \E e \in GetEnvironment(registry, environment_id) :
                     rg_found' = [rg_found EXCEPT ![p] = e]
               /\ rg_pc' = [rg_pc EXCEPT ![p] = "looked"]
               /\ UNCHANGED rg_outcome
    /\ UNCHANGED <<registry, rg_ref, rg_added, rg_next>>
    /\ UNCHANGED notRegistry

(***************************************************************************)
(* The session takes the environment its lookup found, or, the lookup      *)
(* having missed, creates one with the id and adds it                      *)
(* (add_shutit_pexpect_session_environment).                               *)
(***************************************************************************)
Reg_UseOrCreate(p) ==
    /\ rg_outcome = NoOutcome
    /\ rg_pc[p] = "looked"
    /\ IF rg_found[p] = NoEnv
       THEN /\ rg_next <= MaxEnvs
            /\ LET env == [obj |-> rg_next, environment_id |-> rg_id[p]] IN
                  /\ registry' = AddEnvironment(registry, env)
                  /\ rg_ref' = [rg_ref EXCEPT ![p] = env]
            /\ rg_added' = rg_added \cup {rg_id[p]}
            /\ rg_next' = rg_next + 1
       ELSE /\ rg_ref' = [rg_ref EXCEPT ![p] = rg_found[p]]
            /\ UNCHANGED <<registry, rg_added, rg_next>>
    /\ rg_pc' = [rg_pc EXCEPT ![p] = "done"]
    /\ UNCHANGED <<rg_id, rg_found, rg_outcome>>
    /\ UNCHANGED notRegistry

NextRegistry ==
    \/ \E p \in Sessions : Reg_Lookup(p)
    \/ \E p \in Sessions : Reg_UseOrCreate(p)

SpecRegistry == InitRegistry /\ [][NextRegistry]_vars

(***************************************************************************)
(* Properties of the registry (checked under SpecRegistry).                *)
(***************************************************************************)
\* C16: no step removes an environment from the registry; a lookup of an id
\* that has been added returns an environment with that id, and a lookup
\* returns None only for an id that was never added.
C16_EnvironmentsNeverRemoved ==
    [][/\ registry \subseteq registry'
       /\ \A p \in Sessions :
             (rg_pc[p] # "looked" /\ rg_pc'[p] = "looked") =>
                /\ rg_id'[p] \in rg_added =>
                      (/\ rg_found'[p] # NoEnv
                       /\ rg_found'[p] \in registry
                       /\ rg_found'[p].environment_id = rg_id'[p])
                /\ rg_found'[p] = NoEnv => rg_id'[p] \notin rg_added]_vars

C16_Witness ==
    \E p \in Sessions :
        /\ rg_pc[p] = "looked"
        /\ rg_found[p] # NoEnv
        /\ rg_found[p].environment_id = rg_id[p]
        /\ rg_found[p].obj = 1
        /\ Cardinality(registry) >= 2

\* C17: when both sessions have done lookup-or-create for the same id, the
\* registry holds exactly one environment with that id and both sessions
\* reference it.
C17_ConcurrentLookupOrCreateYieldsOne ==
    \A id \in EnvIds :
        (\A p \in Sessions : rg_pc[p] = "done" /\ rg_id[p] = id) =>
            /\ Cardinality({e \in registry : e.environment_id = id}) = 1
            /\ \A p, q \in Sessions : rg_ref[p] = rg_ref[q]

(***************************************************************************)
(* is_ready(shutit, shutit_module_obj) (shutit.py), called any number of   *)
(* times for the modules of the current environment.                       *)
(***************************************************************************)
MaxReadyCalls == 3

\* The orchestrator's variables is_ready leaves alone.
phNotReady == <<phase, mod_idx, cfg_build, cfg_remove, delivery, deps_only,
                dotest, modules_installed, modules_not_installed, ph_logins,
                ph_logouts, ph_start_stack, run_outcome, ph_failure,
                ph_ops, ph_not_ready>>

\* Line 76: the module id is in the environment's modules_ready list.
InReadyCache(ready_list, m) == m \in Range(ready_list)

\* Lines 79-84 cache every answer of check_ready, whatever it is.
CacheReady_AnyAnswer(ready_list, m, ready) == Append(ready_list, m)

\* Lines 80-82: only an answer of True enters the modules_ready list.
CacheReady(ready_list, m, ready) ==
    IF ready THEN Append(ready_list, m) ELSE ready_list

\* What is_ready returns: True from the cache, else check_ready's answer.
is_ready(ready_list, m, ready) ==
    IF InReadyCache(ready_list, m) THEN TRUE ELSE ready

InitReady ==
    /\ LaterIdle
    /\ FailIdle /\ RegistryIdle
    /\ EAIIdle /\ interactive = FALSE
    /\ SessionIdle /\ SessionHistIdle /\ SendIdle /\ MultiIdle /\ PhasesIdle

\* One call of is_ready for module m; ready is what the module's
\* check_ready answers if it is asked.
IsReady_Call ==
    \E m \in Modules, ready \in BOOLEAN :
        /\ Len(rd_returns[m]) < MaxReadyCalls
        /\ rd_returns' = [rd_returns EXCEPT
                            ![m] = Append(@, is_ready(modules_ready, m, ready))]
        /\ IF InReadyCache(modules_ready, m)
           THEN UNCHANGED <<rd_calls, modules_ready>>
           ELSE /\ rd_calls' = [rd_calls EXCEPT ![m] = @ + 1]
                /\ modules_ready' = CacheReady(modules_ready, m, ready)
        /\ UNCHANGED phNotReady
        /\ UNCHANGED notReady

NextReady == IsReady_Call

SpecReady == InitReady /\ [][NextReady]_vars

\* C21: after the first call of is_ready for a module, every later call
\* for that module returns what the first call returned, and the module's
\* check_ready is invoked once at most.
C21_IsReadyCachesItsResult ==
    \A m \in Modules :
        /\ rd_calls[m] <= 1
        /\ \A i \in 1 .. Len(rd_returns[m]) : rd_returns[m][i] = rd_returns[m][1]

(***************************************************************************)
(* stop_all(shutit, run_order) and start_all(shutit, run_order)            *)
(* (shutit.py), called with any run order over any set of installed        *)
(* modules.                                                                *)
(***************************************************************************)
MaxStopStartCalls == 2

\* The values of the run_order argument: the default -1 and the run orders
\* around those of the modules.
RunOrderArgs == {-1} \cup (0 .. (NModules + 1))

InitStopStart ==
    /\ StopStartIdle
    /\ ReadyIdle /\ MapIdle /\ SetupIdle /\ DepsIdle /\ SecretsIdle
    /\ FailIdle /\ RegistryIdle
    /\ EAIIdle /\ interactive = FALSE
    /\ SessionIdle /\ SessionHistIdle /\ SendIdle /\ MultiIdle
    /\ \E S \in SUBSET Modules :
          /\ modules_installed = InRunOrder(S)
          /\ modules_not_installed = InRunOrder(Modules \ S)
    /\ phase = [fn |-> "idle", in_loop |-> FALSE]
    /\ mod_idx = 1
    /\ cfg_build = [m \in Modules |-> FALSE]
    /\ cfg_remove = [m \in Modules |-> FALSE]
    /\ delivery = "bash"
    /\ deps_only = FALSE
    /\ dotest = FALSE
    /\ modules_ready = <<>>
    /\ ph_logins = 0
    /\ ph_logouts = 0
    /\ ph_start_stack = <<>>
    /\ run_outcome = "running"
    /\ ph_failure = NoFailure
    /\ ph_ops = <<>>
    /\ ph_not_ready = {}

\* One call of stop_all(shutit, r); the failing-th stop returns False.
StopAll_Call ==
    /\ sa_outcome = "running"
    /\ Len(sa_calls) < MaxStopStartCalls
    /\ \E r \in RunOrderArgs :
       \E failing \in 0 .. Len(StopAllVisits(r)) :
          /\ sa_calls' = Append(sa_calls,
                                [fn |-> "stop_all", run_order |-> r,
                                 ops |-> Invoked("stop", StopAllVisits(r), failing),
                                 ok |-> failing = 0])
          /\ sa_outcome' = IF failing = 0 THEN "running" ELSE "fatal"
    /\ UNCHANGED <<phVars, sessVars>>
    /\ UNCHANGED notStopStart

\* One call of start_all(shutit, r); the failing-th start returns False.
StartAll_Call ==
    /\ sa_outcome = "running"
    /\ Len(sa_calls) < MaxStopStartCalls
    /\ \E r \in RunOrderArgs :
       \E failing \in 0 .. Len(StartAllVisits(r)) :
          /\ sa_calls' = Append(sa_calls,
                                [fn |-> "start_all", run_order |-> r,
                                 ops |-> Invoked("start", StartAllVisits(r), failing),
                                 ok |-> failing = 0])
          /\ sa_outcome' = IF failing = 0 THEN "running" ELSE "fatal"
    /\ UNCHANGED <<phVars, sessVars>>
    /\ UNCHANGED notStopStart

NextStopStart == StopAll_Call \/ StartAll_Call

SpecStopStart == InitStopStart /\ [][NextStopStart]_vars

\* The installed modules a call with run order r is to operate on, where
\* InRange(m, r) says which run orders r reaches, as operations in the
\* order of list.
Expected(op, list, r, InRange(_, _)) ==
    LET sel == SelectSeq(list, LAMBDA m : /\ m \in Range(modules_installed)
                                          /\ (r = -1 \/ InRange(m, r)))
    IN  [i \in 1 .. Len(sel) |-> [op |-> op, m |-> sel[i]]]

IsPrefix(a, b) == Len(a) <= Len(b) /\ a = SubSeq(b, 1, Len(a))

\* What a call invoked agrees with the expected operations: all of them
\* when every operation returned True, and those up to the failing one
\* otherwise.
Agrees(call, InRange(_, _)) ==
    LET exp == IF call.fn = "stop_all"
               THEN Expected("stop", Descending, call.run_order, InRange)
               ELSE Expected("start", Ascending, call.run_order, InRange)
    IN  IF call.ok THEN call.ops = exp
        ELSE call.ops # <<>> /\ IsPrefix(call.ops, exp)

RunOrderBelow(m, r) == run_order(m) < r
RunOrderNotAbove(m, r) == run_order(m) <= r

MaxLoaded == 3
MaxRunOrder == 2

LoadedIds == {"shutit.tk.setup", "shutit.tk.app", "shutit.tk.db"}

\* The module objects that can be loaded: object obj has a module id and a
\* run order; two objects may carry the same id or the same run order.
LoadableSets ==
    UNION {{ {[obj |-> i, module_id |-> ids[i], run_order |-> ros[i]] : i \in 1 .. k} :
               ids \in [1 .. k -> LoadedIds], ros \in [1 .. k -> 0 .. MaxRunOrder]} :
           k \in 0 .. MaxLoaded}

\* d[key] = value on a dict.
DictSet(d, key, value) ==
    [k \in DOMAIN d \cup {key} |-> IF k = key THEN value ELSE d[k]]

\* Line 100: no module outside the special ones (run_order > 0).
NoNonCore(modules) == Cardinality({mod \in modules : mod.run_order > 0}) < 1

\* Line 116: the module id is a key of shutit_map already.
DuplicateId(map, module) == module.module_id \in DOMAIN map

DuplicateRunOrder_Never(orders, module) == FALSE

\* Line 118: the run order is a key of run_orders already.
DuplicateRunOrder(orders, module) == module.run_order \in DOMAIN orders

InitMap ==
    /\ ReadyIdle /\ StopStartIdle /\ SetupIdle /\ DepsIdle /\ SecretsIdle
    /\ FailIdle /\ RegistryIdle
    /\ EAIIdle /\ interactive = FALSE
    /\ SessionIdle /\ SessionHistIdle /\ SendIdle /\ MultiIdle /\ PhasesIdle
    /\ shutit_modules \in LoadableSets
    /\ shutit_map = <<>>
    /\ run_orders = <<>>
    /\ has_core_module = FALSE
    /\ mp_todo = {}
    /\ mp_pc = "check"
    /\ mp_outcome = "running"

\* Lines 99-109: without a module of run order above 0 every branch fails.
Map_CheckNonCore ==
    /\ mp_pc = "check"
    /\ IF NoNonCore(shutit_modules)
       THEN /\ mp_pc' = "done"
            /\ mp_outcome' = "fatal"
            /\ UNCHANGED mp_todo
       ELSE /\ mp_pc' = "loop"
            /\ mp_todo' = shutit_modules
            /\ UNCHANGED mp_outcome
    /\ UNCHANGED <<shutit_modules, shutit_map, run_orders, has_core_module>>
    /\ UNCHANGED notMap

\* Lines 114-122: one module of the loop, in the set's iteration order.
Map_Module ==
    /\ mp_pc = "loop"
    /\ mp_todo # {}
    /\ \E module \in mp_todo :
          IF DuplicateId(shutit_map, module) \/ DuplicateRunOrder(run_orders, module)
          THEN /\ mp_pc' = "done"
               /\ mp_outcome' = "fatal"
               /\ UNCHANGED <<shutit_map, run_orders, has_core_module, mp_todo>>
          ELSE /\ has_core_module' = (has_core_module \/ module.run_order = 0)
               /\ shutit_map' = DictSet(shutit_map, module.module_id, module)
               /\ run_orders' = DictSet(run_orders, module.run_order, module)
               /\ mp_todo' = mp_todo \ {module}
               /\ UNCHANGED <<mp_pc, mp_outcome>>
    /\ UNCHANGED shutit_modules
    /\ UNCHANGED notMap

\* Lines 124-125: after the loop, a missing run order 0 fails.
Map_CheckCore ==
    /\ mp_pc = "loop"
    /\ mp_todo = {}
    /\ mp_pc' = "done"
    /\ mp_outcome' = IF has_core_module THEN "completed" ELSE "fatal"
    /\ UNCHANGED <<shutit_modules, shutit_map, run_orders, has_core_module,
                   mp_todo>>
    /\ UNCHANGED notMap

NextMap == Map_CheckNonCore \/ Map_Module \/ Map_CheckCore

SpecMap == InitMap /\ [][NextMap]_vars

\* The loaded modules have pairwise distinct ids and run orders, one of
\* them has run order 0 and one a run order above 0.
WellFormedModules ==
    /\ \A a, b \in shutit_modules :
          a # b => a.module_id # b.module_id /\ a.run_order # b.run_order
    /\ \E a \in shutit_modules : a.run_order = 0
    /\ \E a \in shutit_modules : a.run_order > 0

\* C24: when init_shutit_map completes without a fatal failure, shutit_map
\* has exactly one entry per loaded module, module ids and run orders are
\* pairwise distinct, and a module of run order 0 and one of run order
\* above 0 exist; a duplicate id, a duplicate run order, no module of run
\* order 0 or no module of run order above 0 ends in a fatal failure.
C24_MapCompleteIffWellFormed ==
    mp_pc = "done" =>
        /\ mp_outcome \in {"completed", "fatal"}
        /\ mp_outcome = "completed" <=> WellFormedModules
        /\ mp_outcome = "completed" =>
              /\ Cardinality(DOMAIN shutit_map) = Cardinality(shutit_modules)
              /\ \A module \in shutit_modules :
                    /\ module.module_id \in DOMAIN shutit_map
                    /\ shutit_map[module.module_id] = module

C24_Witness ==
    /\ mp_pc = "done"
    /\ mp_outcome = "completed"
    /\ Cardinality(shutit_modules) = 2
    /\ Cardinality(DOMAIN shutit_map) = 2

(***************************************************************************)
(* setup_shutit_obj(shutit) (shutit.py) from the dependency check to the   *)
(* phases, over the problems the run's modules may have.                   *)
(***************************************************************************)
MaxErrs == 2

\* n copies of x, as the list of errors a check returns.
Errors(x, n) == [i \in 1 .. n |-> x]

\* check_deps and check_conflicts return one error per problem found.
check_deps_errs(found) == Errors("check_deps", found.deps)
check_conflicts_errs(found) == Errors("check_conflicts", found.conflicts)

\* check_ready, line 302: a module that is not ready adds an error when
\* throw_error is set, and only then.
check_ready_errs(found, throw_error) ==
    IF throw_error THEN Errors("check_ready", found.not_ready) ELSE <<>>

\* do_interactive_modules returns its errs, which nothing is added to.
do_interactive_modules_errs == <<>>

InitSetup ==
    /\ ReadyIdle /\ StopStartIdle /\ MapIdle /\ DepsIdle /\ SecretsIdle
    /\ FailIdle /\ RegistryIdle
    /\ EAIIdle /\ interactive = FALSE
    /\ SessionIdle /\ SessionHistIdle /\ SendIdle /\ MultiIdle /\ PhasesIdle
    /\ su_pc = "deps"
    /\ su_choose_config \in BOOLEAN
    /\ su_list_deps \in BOOLEAN
    /\ su_found \in [deps : 0 .. MaxErrs, conflicts : 0 .. MaxErrs,
                     not_ready : 0 .. MaxErrs]
    /\ errs = <<>>
    /\ su_executed = <<>>
    /\ su_outcome = "running"

\* Lines 540-544: errs comes from do_interactive_modules when the operator
\* chooses the configuration, from check_deps otherwise.
Setup_Deps ==
    /\ su_pc = "deps"
    /\ IF su_choose_config
       THEN /\ errs' = do_interactive_modules_errs
            /\ su_executed' = Append(su_executed, "do_interactive_modules")
       ELSE /\ errs' = check_deps_errs(su_found)
            /\ su_executed' = Append(su_executed, "check_deps")
    /\ su_pc' = "lists"
    /\ UNCHANGED <<su_choose_config, su_list_deps, su_found, su_outcome>>
    /\ UNCHANGED notSetup

\* Line 546: do_lists exits the run when the dependency list was asked for.
Setup_Lists ==
    /\ su_pc = "lists"
    /\ su_executed' = Append(su_executed, "do_lists")
    /\ IF su_list_deps
       THEN su_pc' = "done" /\ su_outcome' = "exit"
       ELSE su_pc' = "conflicts" /\ UNCHANGED su_outcome
    /\ UNCHANGED <<su_choose_config, su_list_deps, su_found, errs>>
    /\ UNCHANGED notSetup

\* Line 549.
Setup_Conflicts ==
    /\ su_pc = "conflicts"
    /\ errs' = errs \o check_conflicts_errs(su_found)
    /\ su_executed' = Append(su_executed, "check_conflicts")
    /\ su_pc' = "ready"
    /\ UNCHANGED <<su_choose_config, su_list_deps, su_found, su_outcome>>
    /\ UNCHANGED notSetup

\* Line 551: check_ready is called with throw_error=False.
Setup_Ready ==
    /\ su_pc = "ready"
    /\ errs' = errs \o check_ready_errs(su_found, FALSE)
    /\ su_executed' = Append(su_executed, "check_ready")
    /\ su_pc' = "errs"
    /\ UNCHANGED <<su_choose_config, su_list_deps, su_found, su_outcome>>
    /\ UNCHANGED notSetup

\* Lines 552-559: any error collected ends the run in shutit.fail.
Setup_Errs ==
    /\ su_pc = "errs"
    /\ IF errs # <<>>
       THEN /\ su_executed' = Append(su_executed, "fail")
            /\ su_pc' = "done"
            /\ su_outcome' = "fatal"
       ELSE /\ su_pc' = "do_remove"
            /\ UNCHANGED <<su_executed, su_outcome>>
    /\ UNCHANGED <<su_choose_config, su_list_deps, su_found, errs>>
    /\ UNCHANGED notSetup

\* Lines 561-562: the remove and the build phase.
Setup_Phase ==
    /\ su_pc \in {"do_remove", "do_build"}
    /\ su_executed' = Append(su_executed, su_pc)
    /\ su_pc' = IF su_pc = "do_remove" THEN "do_build" ELSE "rest"
    /\ UNCHANGED <<su_choose_config, su_list_deps, su_found, errs, su_outcome>>
    /\ UNCHANGED notSetup

\* Lines 563-571: the remaining phases; the build is marked completed.
Setup_Rest ==
    /\ su_pc = "rest"
    /\ su_executed' = su_executed \o <<"do_test", "do_finalize", "finalize_target">>
    /\ su_pc' = "done"
    /\ su_outcome' = "completed"
    /\ UNCHANGED <<su_choose_config, su_list_deps, su_found, errs>>
    /\ UNCHANGED notSetup

NextSetup ==
    \/ Setup_Deps
    \/ Setup_Lists
    \/ Setup_Conflicts
    \/ Setup_Ready
    \/ Setup_Errs
    \/ Setup_Phase
    \/ Setup_Rest

SpecSetup == InitSetup /\ [][NextSetup]_vars

Executed(f) == \E i \in 1 .. Len(su_executed) : su_executed[i] = f

\* C26: a run that reaches the remove and build phases has executed
\* check_deps, check_conflicts and check_ready before, each without
\* errors; and a run in which one of them returned an error (and which
\* was not a listing of the dependencies) calls fail and enters neither
\* the remove nor the build phase.
C26_PhasesOnlyAfterCleanChecks ==
    /\ (su_pc \in {"do_remove", "do_build"} \/ Executed("do_remove")) =>
          /\ Executed("check_deps")
          /\ Executed("check_conflicts")
          /\ Executed("check_ready")
          /\ errs = <<>>
    /\ (su_pc = "done" /\ su_outcome # "exit" /\ errs # <<>>) =>
          /\ Executed("fail")
          /\ ~Executed("do_remove") /\ ~Executed("do_build")

(***************************************************************************)
(* check_deps(shutit) (shutit.py): the modules to build are collected,     *)
(* resolve_dependencies adds the dependees to build if needed, and the     *)
(* three dependee checks collect their errors.                             *)
(***************************************************************************)
\* A module id that is in no loaded module: shutit_map.get answers None.
MissingModule == 0

DependeeIds == Modules \cup {MissingModule}

\* The orchestrator's variables check_deps leaves alone.
phNotCfgBuild == <<phase, mod_idx, cfg_remove, delivery, deps_only, dotest,
                   modules_ready, modules_installed, modules_not_installed,
                   ph_logins, ph_logouts, ph_start_stack, run_outcome,
                   ph_failure, ph_ops, ph_not_ready>>

\* A set of ids as a list, in ascending order.
RECURSIVE Listed(_)
Listed(S) ==
    IF S = {} THEN <<>>
    ELSE LET least == CHOOSE x \in S : \A y \in S : x <= y
         IN  <<least>> \o Listed(S \ {least})

\* The orders in which a dict of the modules may be iterated.
ListingsOf(S) ==
    {l \in [1 .. Cardinality(S) -> S] : \A i, j \in DOMAIN l : i # j => l[i] # l[j]}

\* shutit.shutit_map.get(dependee_id) answers a module.
Exists(dependee_id) == dependee_id \in Modules

ResolveOne_FlagNotSet(st, dependee_id) ==
    IF Exists(dependee_id) /\ dependee_id \notin Range(st.to_build)
       /\ build_ifneeded[dependee_id]
    THEN [st EXCEPT !.to_build = Append(@, dependee_id)]
    ELSE st

\* Lines 164-170: one dependee of resolve_dependencies; st holds to_build
\* and the build flags.
ResolveOne(st, dependee_id) ==
    IF Exists(dependee_id) /\ dependee_id \notin Range(st.to_build)
       /\ build_ifneeded[dependee_id]
    THEN [to_build |-> Append(st.to_build, dependee_id),
          cfg_build |-> [st.cfg_build EXCEPT ![dependee_id] = TRUE]]
    ELSE st

\* resolve_dependencies(shutit, to_build, depender): the loop over the
\* first n entries of the depender's depends_on list.
RECURSIVE resolve_dependencies(_, _, _)
resolve_dependencies(st, ids, n) ==
    IF n = 0 THEN st
    ELSE ResolveOne(resolve_dependencies(st, ids, n - 1), ids[n])

\* shutit_util.is_to_be_built_or_is_installed.
is_to_be_built_or_is_installed(m) == cfg_build[m] \/ is_installed(m)

\* check_dependee_exists: an error when the dependee is None.
check_dependee_exists(depender, dependee_id) == ~Exists(dependee_id)

\* check_dependee_build: an error when the dependee is neither configured
\* to be built nor to be built or installed.
check_dependee_build(depender, dependee_id) ==
    ~(cfg_build[dependee_id] \/ is_to_be_built_or_is_installed(dependee_id))

check_dependee_order_Never(depender, dependee_id) == FALSE

check_dependee_order_OrEqual(depender, dependee_id) ==
    run_order(dependee_id) >= run_order(depender)

\* check_dependee_order: an error when the dependee runs after the depender.
check_dependee_order(depender, dependee_id) ==
    run_order(dependee_id) > run_order(depender)

\* Lines 239-241: the triples (depender, dependee id) of the first n
\* modules of to_build.
RECURSIVE Triples(_, _)
Triples(build_list, n) ==
    IF n = 0 THEN <<>>
    ELSE LET ids == Listed(depends_on[build_list[n]])
         IN  Triples(build_list, n - 1)
             \o [i \in 1 .. Len(ids) |->
                   [depender |-> build_list[n], dependee_id |-> ids[i]]]

\* The answer of the named check for one pair: TRUE when it is an error.
Answer(name, depender, dependee_id) ==
    CASE name = "exists" -> check_dependee_exists(depender, dependee_id)
      [] name = "build" -> check_dependee_build(depender, dependee_id)
      [] name = "order" -> check_dependee_order(depender, dependee_id)

\* err_checker over the answers of one check: the triples that passed.
Passed(triples, name) ==
    SelectSeq(triples, LAMBDA t : ~Answer(name, t.depender, t.dependee_id))

\* err_checker over the answers of one check: the errors it found.
Found(triples, name) ==
    LET failed == SelectSeq(triples,
                            LAMBDA t : Answer(name, t.depender, t.dependee_id))
    IN  [i \in 1 .. Len(failed) |->
           [err |-> name, depender |-> failed[i].depender,
            dependee_id |-> failed[i].dependee_id]]

\* Lines 243-247: the three checks, each over the triples that passed the
\* checks before it.
CheckDepsErrs(build_list) ==
    LET t0 == Triples(build_list, Len(build_list))
        t1 == Passed(t0, "exists")
        t2 == Passed(t1, "build")
    IN  Found(t0, "exists") \o Found(t1, "build") \o Found(t2, "order")

InitDeps ==
    /\ ReadyIdle /\ StopStartIdle /\ MapIdle /\ SetupIdle /\ SecretsIdle
    /\ FailIdle /\ RegistryIdle
    /\ EAIIdle /\ interactive = FALSE
    /\ SessionIdle /\ SessionHistIdle /\ SendIdle /\ MultiIdle
    /\ depends_on \in [Modules -> SUBSET DependeeIds]
    /\ build_ifneeded \in [Modules -> BOOLEAN]
    /\ to_build = <<>>
    /\ dp_idx = 1
    /\ dp_pc = "collect"
    /\ found_errs = <<>>
    /\ cfg_build \in [Modules -> BOOLEAN]
    /\ \E S \in SUBSET Modules :
          /\ modules_installed = InRunOrder(S)
          /\ modules_not_installed = InRunOrder(Modules \ S)
    /\ phase = [fn |-> "idle", in_loop |-> FALSE]
    /\ mod_idx = 1
    /\ cfg_remove = [m \in Modules |-> FALSE]
    /\ delivery = "bash"
    /\ deps_only = FALSE
    /\ dotest = FALSE
    /\ modules_ready = <<>>
    /\ ph_logins = 0
    /\ ph_logouts = 0
    /\ ph_start_stack = <<>>
    /\ run_outcome = "running"
    /\ ph_failure = NoFailure
    /\ ph_ops = <<>>
    /\ ph_not_ready = {}

\* Lines 217-220: to_build is the modules whose build flag is set, in the
\* iteration order of shutit_map.
Deps_Collect ==
    /\ dp_pc = "collect"
    /\ to_build' \in ListingsOf({m \in Modules : cfg_build[m]})
    /\ dp_idx' = 1
    /\ dp_pc' = "resolve"
    /\ UNCHANGED <<depends_on, build_ifneeded, found_errs, cfg_build>>
    /\ UNCHANGED phNotCfgBuild
    /\ UNCHANGED notDeps

\* Lines 222-223: one module of the loop over to_build, which goes on over
\* the modules the loop itself appends.
Deps_Resolve ==
    /\ dp_pc = "resolve"
    /\ dp_idx <= Len(to_build)
    /\ LET ids == Listed(depends_on[to_build[dp_idx]])
           st == resolve_dependencies([to_build |-> to_build,
                                       cfg_build |-> cfg_build],
                                      ids, Len(ids))
       IN  /\ to_build' = st.to_build
           /\ cfg_build' = st.cfg_build
    /\ dp_idx' = dp_idx + 1
    /\ UNCHANGED <<depends_on, build_ifneeded, dp_pc, found_errs>>
    /\ UNCHANGED phNotCfgBuild
    /\ UNCHANGED notDeps

\* Lines 237-257: the loop is over; the checks run and check_deps returns
\* the errors found.
Deps_Check ==
    /\ dp_pc = "resolve"
    /\ dp_idx > Len(to_build)
    /\ found_errs' = CheckDepsErrs(to_build)
    /\ dp_pc' = "done"
    /\ UNCHANGED <<depends_on, build_ifneeded, to_build, dp_idx, cfg_build>>
    /\ UNCHANGED phNotCfgBuild
    /\ UNCHANGED notDeps

NextDeps == Deps_Collect \/ Deps_Resolve \/ Deps_Check

SpecDeps == InitDeps /\ [][NextDeps]_vars

\* check_deps runs to its end: each of its steps is taken when it can be.
SpecDepsLive ==
    SpecDeps /\ WF_vars(Deps_Collect) /\ WF_vars(Deps_Resolve) /\ WF_vars(Deps_Check)

\* The build flags are closed under the dependencies to build if needed.
ClosedUnderDependencies ==
    \A M \in Modules : cfg_build[M] =>
        \A D \in depends_on[M] :
            (D \in Modules /\ build_ifneeded[D]) => cfg_build[D]

FirstFailing(depender, dependee_id) ==
    IF dependee_id \notin Modules THEN "exists"
    ELSE IF ~(cfg_build[dependee_id]
              \/ dependee_id \in Range(modules_installed)) THEN "build"
    ELSE IF run_order(dependee_id) > run_order(depender) THEN "order"
    ELSE "none"

\* The errors check_deps returned for the pair.
ErrorsOf(depender, dependee_id) ==
    {i \in DOMAIN found_errs : /\ found_errs[i].depender = depender
                               /\ found_errs[i].dependee_id = dependee_id}

InitBuildOrder ==
    /\ ReadyIdle /\ StopStartIdle /\ MapIdle /\ SetupIdle /\ SecretsIdle
    /\ FailIdle /\ RegistryIdle
    /\ EAIIdle /\ interactive = FALSE
    /\ SessionIdle /\ SessionHistIdle /\ SendIdle /\ MultiIdle
    /\ phase = [fn |-> "check_ready", in_loop |-> FALSE]
    /\ mod_idx = 1
    /\ cfg_build \in [Modules -> BOOLEAN]
    /\ cfg_remove = [m \in Modules |-> FALSE]
    /\ delivery = "bash"
    /\ deps_only \in BOOLEAN
    /\ dotest = TRUE
    /\ modules_ready = <<>>
    /\ \E S \in SUBSET Modules :
          /\ modules_installed = InRunOrder(S)
          /\ modules_not_installed = InRunOrder(Modules \ S)
    /\ ph_logins = 0
    /\ ph_logouts = 0
    /\ ph_start_stack = login_stack
    /\ run_outcome = "running"
    /\ ph_failure = NoFailure
    /\ ph_ops = <<>>
    /\ ph_not_ready = {}
    /\ depends_on \in [Modules -> SUBSET Modules]
    /\ build_ifneeded = [m \in Modules |-> FALSE]
    /\ to_build = InRunOrder({m \in Modules : cfg_build[m]})
    /\ dp_idx = Len(to_build) + 1
    /\ dp_pc = "done"
    /\ found_errs = CheckDepsErrs(to_build)

SpecBuildOrder == InitBuildOrder /\ [][NextPhases]_vars

\* Module D was reached by do_build before the i-th operation of the
\* phase: it was built, or found installed and started.
ReachedBefore(D, i) ==
    \E j \in 1 .. (i - 1) : /\ ph_ops[j].m = D
                            /\ ph_ops[j].op \in {"build", "start"}

\* Every build of the phase comes after do_build has reached the modules
\* among Needed(m) that the built module m depends on.
BuildsAfter(Needed(_)) ==
    \A i \in DOMAIN ph_ops :
        ph_ops[i].op = "build" =>
            \A D \in depends_on[ph_ops[i].m] \cap Needed(ph_ops[i].m) :
                cfg_build[D] => ReachedBefore(D, i)

AllModules(m) == Modules
OtherModules(m) == Modules \ {m}

\* C29 (as stated): in a run where check_deps returned no errors, do_build
\* invokes build on a module only after it has reached (built, or found
\* installed) every module that the module depends on and that is
\* configured to be built.
C29_BuildAfterDependees ==
    (dp_pc = "done" /\ found_errs = <<>> /\ phase.fn = "do_build") =>
        BuildsAfter(AllModules)

\* C29 (amended): in a run where check_deps returned no errors, do_build
\* invokes build on a module only after it has reached (built, or found
\* installed) every other module that the module depends on and that is
\* configured to be built.
C29_BuildAfterOtherDependees ==
    (dp_pc = "done" /\ found_errs = <<>> /\ phase.fn = "do_build") =>
        BuildsAfter(OtherModules)

\* Module 2 depends on module 1; both are built, module 1 first.
C29_Witness ==
    /\ dp_pc = "done" /\ found_errs = <<>>
    /\ phase.fn = "do_build"
    /\ 1 \in depends_on[2]
    /\ \E i, j \in DOMAIN ph_ops :
          /\ i < j
          /\ ph_ops[i] = [op |-> "build", m |-> 1]
          /\ ph_ops[j] = [op |-> "build", m |-> 2]

(***************************************************************************)
(* The passwords the program sends by itself: the host password at the     *)
(* password prompts of the container start, the replies to the password    *)
(* prompts of commit, export and save in do_repository_work, and the       *)
(* repository password of the docker login in push_repository.  A send is  *)
(* appended to the command history unless record_command is false or       *)
(* secret is true.                                                         *)
(***************************************************************************)
MaxPrompts == 2
Passwords == {"hunter2", "tr0ub4dor"}

\* The flags of a send that decide on the history; send() and multisend()
\* default to record_command=True, secret=False.
SendSpec(send, record_command, secret) ==
    [send |-> send, record_command |-> record_command, secret |-> secret]

DefaultSendSpec(send) == SendSpec(send, TRUE, FALSE)

\* The history after a send.
RecordCommand(history, spec) ==
    IF ~spec.record_command \/ spec.secret
    THEN history
    ELSE Append(history, spec.send)

\* The sends of the program, site by site.
DockerPasswordSend == DefaultSendSpec(pw_cfg.host_password)
CommitSend == DefaultSendSpec("docker commit")
CommitReplySend == SendSpec(pw_cfg.host_password, FALSE, FALSE)
ExportSend == DefaultSendSpec("docker export")
ExportReplySend == DefaultSendSpec(pw_cfg.password)
SaveSend == DefaultSendSpec("docker save")
SaveReplySend == DefaultSendSpec(pw_cfg.password)
LoginMultisend == DefaultSendSpec("docker login")
LoginPasswordReply ==
    SendSpec(pw_cfg.repository_password, LoginMultisend.record_command,
             LoginMultisend.secret)
PushSend == DefaultSendSpec("docker push")

InitSecrets ==
    /\ FailIdle /\ RegistryIdle
    /\ ReadyIdle /\ StopStartIdle /\ MapIdle /\ SetupIdle /\ DepsIdle
    /\ EAIIdle /\ interactive = FALSE
    /\ SessionIdle /\ SessionHistIdle /\ SendIdle /\ MultiIdle
    /\ PhasesIdle
    /\ pw_pc = "docker_expect"
    /\ pw_res \in 0 .. 1
    /\ pw_cfg \in [host_password : Passwords, repository_password : Passwords,
                   password : Passwords, export : BOOLEAN, save : BOOLEAN,
                   push : BOOLEAN]
    /\ pw_history = <<>>
    /\ pw_prompts = 0

\* conn_docker_start_container, res == 0: the password prompt is answered
\* with the host password; the send answers the next pattern matched.
Docker_SendPassword ==
    /\ pw_pc = "docker_expect"
    /\ pw_res = 0
    /\ pw_prompts < MaxPrompts
    /\ pw_history' = RecordCommand(pw_history, DockerPasswordSend)
    /\ pw_prompts' = pw_prompts + 1
    /\ \E answer \in 0 .. 1 :
          pw_res' = IF pw_prompts + 1 = MaxPrompts THEN 1 ELSE answer
    /\ UNCHANGED <<pw_pc, pw_cfg>>
    /\ UNCHANGED notSecrets

\* conn_docker_start_container, res == 1: the prompt is found; the run goes
\* on and comes to do_repository_work, which commits the container.
Docker_Prompt ==
    /\ pw_pc = "docker_expect"
    /\ pw_res = 1
    /\ pw_pc' = "commit"
    /\ UNCHANGED <<pw_res, pw_cfg, pw_history, pw_prompts>>
    /\ UNCHANGED notSecrets

\* The position after the commit: export, save, push or the end.
AfterCommit ==
    IF pw_cfg.export THEN "export"
    ELSE IF pw_cfg.save THEN "save"
    ELSE IF pw_cfg.push THEN "login" ELSE "done"

AfterExport ==
    IF pw_cfg.save THEN "save"
    ELSE IF pw_cfg.push THEN "login" ELSE "done"

AfterSave == IF pw_cfg.push THEN "login" ELSE "done"

\* A send that expects [expect, 'assword'] and the branch on its answer.
AskingSend(at, spec, reply, after) ==
    /\ pw_pc = at
    /\ pw_history' = RecordCommand(pw_history, spec)
    /\ \E answer \in 0 .. 1 :
          /\ pw_res' = answer
          /\ pw_pc' = IF answer = 1 THEN reply ELSE after
    /\ UNCHANGED <<pw_cfg, pw_prompts>>
    /\ UNCHANGED notSecrets

\* The reply to a password prompt.
ReplySend(at, spec, after) ==
    /\ pw_pc = at
    /\ pw_history' = RecordCommand(pw_history, spec)
    /\ pw_pc' = after
    /\ UNCHANGED <<pw_res, pw_cfg, pw_prompts>>
    /\ UNCHANGED notSecrets

Repo_Commit == AskingSend("commit", CommitSend, "commit_reply", AfterCommit)
Repo_CommitReply == ReplySend("commit_reply", CommitReplySend, AfterCommit)
Repo_Export == AskingSend("export", ExportSend, "export_reply", AfterExport)
Repo_ExportReply == ReplySend("export_reply", ExportReplySend, AfterExport)
Repo_Save == AskingSend("save", SaveSend, "save_reply", AfterSave)
Repo_SaveReply == ReplySend("save_reply", SaveReplySend, AfterSave)

\* push_repository: the multisend of docker login, whose Password prompt is
\* answered with the repository password, then the push.
Push_Login ==
    /\ pw_pc = "login"
    /\ pw_history' = RecordCommand(RecordCommand(pw_history, LoginMultisend),
                                   LoginPasswordReply)
    /\ pw_pc' = "push"
    /\ UNCHANGED <<pw_res, pw_cfg, pw_prompts>>
    /\ UNCHANGED notSecrets

Push_Send == ReplySend("push", PushSend, "done")

NextSecrets ==
    \/ Docker_SendPassword
    \/ Docker_Prompt
    \/ Repo_Commit
    \/ Repo_CommitReply
    \/ Repo_Export
    \/ Repo_ExportReply
    \/ Repo_Save
    \/ Repo_SaveReply
    \/ Push_Login
    \/ Push_Send

SpecSecrets == InitSecrets /\ [][NextSecrets]_vars

\* The passwords of the run.
RunPasswords ==
    {pw_cfg.host_password, pw_cfg.repository_password, pw_cfg.password}

\* C34: no password the program sends (the replies to the password prompts
\* of do_repository_work, the credentials of push_repository, the host
\* password of conn_docker_start_container) is in the command history.
C34_NoPasswordInHistory ==
    \A i \in DOMAIN pw_history : pw_history[i] \notin RunPasswords

====
